---------------------------- MODULE Spec2Model ----------------------------
(***************************************************************************)
(* Pitching-motion analysis backend: event detectors, kinematic feature    *)
(* extraction, comparison scorer, profile builder and ball-quality         *)
(* vectorizer, modelled as state machines over bounded inputs.             *)
(*                                                                         *)
(* Conventions                                                             *)
(*   - Python None is the empty tuple None; a present value x is <<x>>.    *)
(*   - A Python dict is a function whose DOMAIN is its key set.            *)
(*   - Pixel coordinates are integers; confidences are in tenths           *)
(*     (10 = 1.0); angles are whole degrees, rounded down; lengths that    *)
(*     need a square root are in thousandths of a pixel, rounded down.     *)
(*   - Scores are exact fractions <<numerator, denominator>>; profile      *)
(*     statistics are integers in ten-thousandths (four decimals).         *)
(*   - Arithmetic is that of the reals (no floating-point rounding).       *)
(***************************************************************************)
EXTENDS Integers, Sequences, FiniteSets, TLC

VARIABLES
    lf_seq,        \* detect_landing_frame: pose_sequence argument
    lf_release,    \* detect_landing_frame: release_frame argument
    lf_ret,        \* detect_landing_frame: [status, value]
    result_json,   \* extract_pitching_biomechanics: frames of the pose response
    kin_ret,       \* extract_pitching_biomechanics: [status, value]
    sc_pc,         \* calculate_score_from_comparison: "idle", "call", "loop", "done"
    features,      \* its argument features: dict key -> None or <<number>>
    profile_data,  \* its argument profile_data: None/{} or dict key -> stats
    sc_todo,       \* keys of features.items() still to visit
    total_score,   \* its local total_score, a fraction <<numerator, denominator>>
    feature_count, \* its local feature_count
    feature_score, \* its local feature_score of the last scored feature, or None
    sc_ret,        \* its [status, value]
    svc_pc,        \* analyze_pitch_service: position in the function
    svc_req,       \* its arguments player_name, benchmark_player_name
    db_models,     \* rows of the pitch_model table
    db_queries,    \* model names looked up by get_comparison_model, in order
    temp_exists,   \* the temporary copy of the upload exists
    pose_task,     \* analyze_video_kinematics task: [state, value]
    ball_task,     \* analyze_ball_flight task: [state, value]
    profile_model, \* its local profile_model: None or <<row>>
    pitch_score,   \* its local pitch_score
    svc_exc,       \* an exception is propagating out of the try block
    svc_ret,       \* its [status, value]
    ball_results,  \* classify_ball_quality: ball_json['results']
    x_list,        \* its local x_list when the frame is built
    y_list,        \* its local y_list when the frame is built
    ball_df,       \* its one-row data frame: None or <<[columns, values]>>
    ball_ret,      \* its [status, value]
    features_data, \* create_pitch_profile: its argument, a list of records
    pf_ret,        \* its [status, value]
    ang_args,      \* calculate_pixel_angle: None or <<(a, b, c)>>
    ang_divisors,  \* the squared divisors of the divisions it performed
    ang_ret,       \* its [status, value] for (a, b, c)
    ang_swapped,   \* its [status, value] for (c, b, a)
    sh_seq,        \* detect_shoulder_frame: pose_sequence argument
    sh_release,    \* detect_shoulder_frame: release_frame argument, None before the call
    sh_i,          \* position in pose_sequence of the item the for loop visits next
    start_found,   \* its local start_found
    candidate_list,\* its local candidate_list
    sh_ret,        \* its [status, value]
    ing_pc,        \* ingestVideos.py main: position in the script
    ing_runs,      \* number of runs of the script started so far
    ing_todo,      \* videos of all_videos_in_folder the loop has yet to visit
    ing_new_id,    \* new_pitch_record.id after the refresh, None before
    pitch_record,  \* committed rows of table pitch_record: video_filename by id
    kinematics     \* committed rows of table kinematics: their pitch_record_id

landVars == <<lf_seq, lf_release, lf_ret>>
kinVars == <<result_json, kin_ret>>
scoreVars == <<sc_pc, features, profile_data, sc_todo, total_score, feature_count,
               feature_score, sc_ret>>
svcVars == <<svc_pc, svc_req, db_models, db_queries, temp_exists, pose_task, ball_task,
             profile_model, pitch_score, svc_exc, svc_ret>>
ballVars == <<ball_results, x_list, y_list, ball_df, ball_ret>>
profVars == <<features_data, pf_ret>>
angleVars == <<ang_args, ang_divisors, ang_ret, ang_swapped>>
shVars == <<sh_seq, sh_release, sh_i, start_found, candidate_list, sh_ret>>
ingVars == <<ing_pc, ing_runs, ing_todo, ing_new_id, pitch_record, kinematics>>
vars == <<landVars, kinVars, scoreVars, svcVars, ballVars, profVars, angleVars, shVars,
          ingVars>>

---------------------------------------------------------------------------
(* Generic helpers *)

None == <<>>
Some(x) == <<x>>
IsNone(v) == v = <<>>
Val(v) == v[1]

Abs(x) == IF x < 0 THEN -x ELSE x
Sign(x) == IF x < 0 THEN -1 ELSE IF x > 0 THEN 1 ELSE 0
SetMax(S) == CHOOSE x \in S : \A y \in S : y <= x
SetMin(S) == CHOOSE x \in S : \A y \in S : x <= y
Range(s) == {s[i] : i \in DOMAIN s}

\* dict.get(key) with the default None
Get(d, k) == IF k \in DOMAIN d THEN d[k] ELSE None
EmptyDict == <<>>

\* a call that has not run yet, one that returned, one that raised
Pending == [status |-> "pending", value |-> None]
Returned(v) == [status |-> "returned", value |-> v]
Raised == [status |-> "raised", value |-> None]

RECURSIVE SqrtIter(_, _, _)
SqrtIter(n, lo, hi) ==
    IF lo >= hi THEN lo
    ELSE LET mid == (lo + hi + 1) \div 2
         IN IF mid * mid <= n THEN SqrtIter(n, mid, hi) ELSE SqrtIter(n, lo, mid - 1)

\* floor of the square root, n < 2^31
ISqrt(n) == SqrtIter(n, 0, 46340)

---------------------------------------------------------------------------
(* Bounds of the model *)

MaxFrameIdx == 11      \* frame numbers of the landing inputs are 0..MaxFrameIdx
MaxLead == 9           \* the pose response opens with at most MaxLead set-position frames
MaxTail == 3           \* followed by at most MaxTail frames of any pose
MaxValue == 5          \* subject feature values of the scorer inputs are 0..MaxValue

---------------------------------------------------------------------------
(* kinematicsModule.py: keypoint topology and geometry *)

COCO_KEYPOINTS ==
    [nose |-> 0, left_eye |-> 1, right_eye |-> 2, left_ear |-> 3, right_ear |-> 4,
     left_shoulder |-> 5, right_shoulder |-> 6, left_elbow |-> 7, right_elbow |-> 8,
     left_wrist |-> 9, right_wrist |-> 10, left_hip |-> 11, right_hip |-> 12,
     left_knee |-> 13, right_knee |-> 14, left_ankle |-> 15, right_ankle |-> 16]

NumKeypoints == 17
ConfOne == 10          \* confidence 1.0, in tenths
ConfMin == 3           \* confidence 0.3, in tenths

\* 100000 * sin(d degrees), d = 0..90
SinTab ==
    <<0, 1745, 3490, 5234, 6976, 8716, 10453, 12187, 13917, 15643, 17365,
      19081, 20791, 22495, 24192, 25882, 27564, 29237, 30902, 32557, 34202,
      35837, 37461, 39073, 40674, 42262, 43837, 45399, 46947, 48481, 50000,
      51504, 52992, 54464, 55919, 57358, 58779, 60182, 61566, 62932, 64279,
      65606, 66913, 68200, 69466, 70711, 71934, 73135, 74314, 75471, 76604,
      77715, 78801, 79864, 80902, 81915, 82904, 83867, 84805, 85717, 86603,
      87462, 88295, 89101, 89879, 90631, 91355, 92050, 92718, 93358, 93969,
      94552, 95106, 95630, 96126, 96593, 97030, 97437, 97815, 98163, 98481,
      98769, 99027, 99255, 99452, 99619, 99756, 99863, 99939, 99985, 100000>>

Sin(d) == IF d <= 90 THEN SinTab[d + 1] ELSE SinTab[180 - d + 1]
Cos(d) == IF d <= 90 THEN SinTab[90 - d + 1] ELSE -SinTab[d - 90 + 1]

\* the greatest d in lo..hi with cross*cos d - dot*sin d >= 0 (it holds at lo,
\* and once it fails it fails for every greater d)
RECURSIVE DegreeSearch(_, _, _, _)
DegreeSearch(cross, dot, lo, hi) ==
    IF lo >= hi THEN lo
    ELSE LET mid == (lo + hi + 1) \div 2
         IN IF cross * Cos(mid) - dot * Sin(mid) >= 0
            THEN DegreeSearch(cross, dot, mid, hi)
            ELSE DegreeSearch(cross, dot, lo, mid - 1)

\* mutant: the angle keeps the sign of the turn from the first ray to the second
ArccosDegrees_signed(ab, cb) ==
    LET dot == ab[1] * cb[1] + ab[2] * cb[2]
        turn == ab[1] * cb[2] - ab[2] * cb[1]
    IN IF turn = 0 THEN (IF dot > 0 THEN 0 ELSE 180)
       ELSE Sign(turn) * DegreeSearch(Abs(turn), dot, 0, 179)

\* degrees(arccos(dot / (|u| |v|))) for non-zero u, v, in whole degrees rounded
\* down: the angle t in [0,180] has sin t = cross/(|u||v|), cos t = dot/(|u||v|),
\* and t >= d iff sin(t - d) >= 0 iff cross*cos d - dot*sin d >= 0.
ArccosDegrees(ab, cb) ==
    LET dot == ab[1] * cb[1] + ab[2] * cb[2]
        cross == Abs(ab[1] * cb[2] - ab[2] * cb[1])
    IN IF cross = 0 THEN (IF dot > 0 THEN 0 ELSE 180)
       ELSE DegreeSearch(cross, dot, 0, 179)

\* mutant: only the first ray is tested for zero length
calculate_pixel_angle_one_guard(a, b, c) ==
    LET ab == <<a[1] - b[1], a[2] - b[2]>>
        cb == <<c[1] - b[1], c[2] - b[2]>>
    IN IF ab[1] = 0 /\ ab[2] = 0 THEN None ELSE Some(ArccosDegrees(ab, cb))

\* calculate_pixel_angle(a, b, c): angle at vertex b, None for a zero-length ray
calculate_pixel_angle(a, b, c) ==
    LET ab == <<a[1] - b[1], a[2] - b[2]>>
        cb == <<c[1] - b[1], c[2] - b[2]>>
        norm_ab_is_0 == ab[1] = 0 /\ ab[2] = 0
        norm_cb_is_0 == cb[1] = 0 /\ cb[2] = 0
    IN IF norm_ab_is_0 \/ norm_cb_is_0 THEN None
       ELSE Some(ArccosDegrees(ab, cb))

\* the divisions of one call, each as the square of its divisor
\* norm_ab * norm_cb: none when the function returns at the zero test
pixel_angle_divisors(a, b, c) ==
    LET ab == <<a[1] - b[1], a[2] - b[2]>>
        cb == <<c[1] - b[1], c[2] - b[2]>>
        norm_ab_squared == ab[1] * ab[1] + ab[2] * ab[2]
        norm_cb_squared == cb[1] * cb[1] + cb[2] * cb[2]
    IN IF norm_ab_squared = 0 \/ norm_cb_squared = 0 THEN <<>>
       ELSE <<norm_ab_squared * norm_cb_squared>>

\* calculate_pixel_angle_from_points: the same on lists or tuples
calculate_pixel_angle_from_points(a, b, c) == calculate_pixel_angle(a, b, c)

\* np.linalg.norm of the difference of two keypoint rows (x, y, confidence),
\* in thousandths of a pixel; the confidence column takes part in the norm
Norm3(p, q) ==
    LET dx == p[1] - q[1]
        dy == p[2] - q[2]
        dc == p[3] - q[3]      \* tenths
    IN ISqrt(10000 * (100 * (dx * dx + dy * dy) + dc * dc))

---------------------------------------------------------------------------
(* kinematicsModule.py: detect_landing_frame *)

back_offset_default == 9

\* next((i for i, item in enumerate(seq) if item["frame"] == release_frame), None),
\* as a 1-based position; 0 when there is none
FirstIndexOfFrame(pose_sequence, release_frame) ==
    LET hits == {i \in 1..Len(pose_sequence) : pose_sequence[i].frame = release_frame}
    IN IF hits = {} THEN 0 ELSE SetMin(hits)

\* mutant: the offset is subtracted from the frame number
detect_landing_frame_by_number(pose_sequence, release_frame, back_offset) ==
    IF \E i \in 1..Len(pose_sequence) : pose_sequence[i].frame = release_frame
    THEN (IF release_frame - back_offset < 0 THEN None
          ELSE Some(release_frame - back_offset))
    ELSE None

detect_landing_frame(pose_sequence, release_frame, back_offset) ==
    LET hit == FirstIndexOfFrame(pose_sequence, release_frame)
        candidate_index == hit - 1                     \* 0-based, as in the code
        landing_index == candidate_index - back_offset
    IN IF hit = 0 THEN None
       ELSE IF landing_index < 0 THEN None
       ELSE Some(pose_sequence[landing_index + 1].frame)

---------------------------------------------------------------------------
(* kinematicsModule.py: load_pose_from_response, get_keypoints_at *)

XY(p) == <<p[1], p[2]>>

\* one frame of the response: skipped when predictions is empty; rows given as
\* (x, y) get the confidence column np.ones
LoadFrame(frame) ==
    LET keypoints == frame.predictions[1].keypoints
    IN [frame |-> frame.frame_idx,
        keypoints |-> [j \in DOMAIN keypoints |->
                          IF Len(keypoints[j]) = 2
                          THEN <<keypoints[j][1], keypoints[j][2], ConfOne>>
                          ELSE keypoints[j]]]

\* load_pose_from_response numbering the frames it keeps 0, 1, 2, ...
load_pose_from_response_renumbered(frames) ==
    LET kept == SelectSeq(frames, LAMBDA f : f.predictions # <<>>)
    IN [i \in 1..Len(kept) |-> [LoadFrame(kept[i]) EXCEPT !.frame = i - 1]]

load_pose_from_response(frames) ==
    LET kept == SelectSeq(frames, LAMBDA f : f.predictions # <<>>)
    IN [i \in 1..Len(kept) |-> LoadFrame(kept[i])]

\* frame_id is None or <<n>>; the keypoints of the first item with that frame
get_keypoints_at(pose_sequence, frame_id) ==
    LET hit == IF IsNone(frame_id) THEN 0
               ELSE FirstIndexOfFrame(pose_sequence, Val(frame_id))
    IN IF hit = 0 THEN None ELSE Some(pose_sequence[hit].keypoints)

---------------------------------------------------------------------------
(* kinematicsModule.py: detect_release_frame *)

release_angle_tolerance == 5

IsReleaseCandidate(item) ==
    LET keypoints == item.keypoints
        right_shoulder == keypoints[COCO_KEYPOINTS.right_shoulder]
        right_elbow == keypoints[COCO_KEYPOINTS.right_elbow]
        right_wrist == keypoints[COCO_KEYPOINTS.right_wrist]
        wrist_above_shoulder == right_wrist[2] < right_shoulder[2]
        elbow_behind_wrist == right_elbow[1] < right_wrist[1]
    IN /\ ~(Cardinality(DOMAIN keypoints) < NumKeypoints)
       /\ wrist_above_shoulder
       /\ elbow_behind_wrist

ReleaseCandidate(item) ==
    LET keypoints == item.keypoints
        right_shoulder == keypoints[COCO_KEYPOINTS.right_shoulder]
        right_elbow == keypoints[COCO_KEYPOINTS.right_elbow]
        right_wrist == keypoints[COCO_KEYPOINTS.right_wrist]
    IN [frame |-> item.frame,
        elbow_angle |-> calculate_pixel_angle_from_points(
                            XY(right_wrist), XY(right_elbow), XY(right_shoulder)),
        arm_length |-> Norm3(right_wrist, right_elbow)
                       + Norm3(right_elbow, right_shoulder)]

candidate_frames(pose_sequence) ==
    LET c == SelectSeq(pose_sequence, IsReleaseCandidate)
    IN [i \in 1..Len(c) |-> ReleaseCandidate(c[i])]

\* max(seq, key=...): the first element whose key is the greatest
FirstMaxIndex(keys) ==
    SetMin({i \in 1..Len(keys) : \A j \in 1..Len(keys) : keys[j] <= keys[i]})

\* mutant: the empty-candidates check is missing, so max() of an empty
\* sequence raises as well
detect_release_frame_raises_noguard(pose_sequence) ==
    \/ candidate_frames(pose_sequence) = <<>>
    \/ \E f \in Range(candidate_frames(pose_sequence)) : IsNone(f.elbow_angle)

\* a candidate whose elbow angle is None makes max() / the subtraction of
\* the tolerance filter raise TypeError
detect_release_frame_raises(pose_sequence) ==
    \E f \in Range(candidate_frames(pose_sequence)) : IsNone(f.elbow_angle)

\* the value returned when the call does not raise
detect_release_frame(pose_sequence) ==
    LET cands == candidate_frames(pose_sequence)
    IN IF cands = <<>> THEN None
       ELSE LET max_angle == SetMax({Val(f.elbow_angle) : f \in Range(cands)})
                top_angle_candidates ==
                    SelectSeq(cands, LAMBDA f :
                        Abs(Val(f.elbow_angle) - max_angle) < release_angle_tolerance)
                best == FirstMaxIndex([i \in 1..Len(top_angle_candidates) |->
                                          top_angle_candidates[i].arm_length])
            IN Some(top_angle_candidates[best].frame)

---------------------------------------------------------------------------
(* kinematicsModule.py: detect_shoulder_frame *)

top_n_shoulder == 3

\* ShoulderConfident without the right wrist
ShoulderConfident_without_wrist(keypoints) ==
    SetMin({keypoints[j][3] :
               j \in {COCO_KEYPOINTS.left_shoulder, COCO_KEYPOINTS.right_shoulder,
                      COCO_KEYPOINTS.left_hip}}) >= ConfMin

\* the confidence test of one frame: np.min(...) < 0.3 skips the frame
ShoulderConfident(keypoints) ==
    SetMin({keypoints[j][3] :
               j \in {COCO_KEYPOINTS.left_shoulder, COCO_KEYPOINTS.right_shoulder,
                      COCO_KEYPOINTS.left_hip, COCO_KEYPOINTS.right_wrist}}) >= ConfMin

\* ShoulderVisit evaluating only the frames after the trigger frame
ShoulderVisit_after_trigger(item, found, candidates) ==
    LET keypoints == item.keypoints
        l_sh == XY(keypoints[COCO_KEYPOINTS.left_shoulder])
        r_sh == XY(keypoints[COCO_KEYPOINTS.right_shoulder])
        l_hip == XY(keypoints[COCO_KEYPOINTS.left_hip])
        r_wr == XY(keypoints[COCO_KEYPOINTS.right_wrist])
    IN IF ~ShoulderConfident(keypoints)
       THEN [start_found |-> found, candidate_list |-> candidates]
       ELSE IF ~found
       THEN [start_found |-> r_wr[2] < r_sh[2], candidate_list |-> candidates]
       ELSE IF r_wr[1] > r_sh[1] \/ r_wr[2] >= r_sh[2]
       THEN [start_found |-> TRUE, candidate_list |-> candidates]
       ELSE [start_found |-> TRUE,
             candidate_list |-> Append(candidates,
                 <<calculate_pixel_angle_from_points(l_sh, r_sh, l_hip),
                   Abs(r_sh[1] - l_sh[1]), item.frame>>)]

\* ShoulderVisit with start_found re-evaluated on every frame
ShoulderVisit_unlatched(item, found, candidates) ==
    LET keypoints == item.keypoints
        l_sh == XY(keypoints[COCO_KEYPOINTS.left_shoulder])
        r_sh == XY(keypoints[COCO_KEYPOINTS.right_shoulder])
        l_hip == XY(keypoints[COCO_KEYPOINTS.left_hip])
        r_wr == XY(keypoints[COCO_KEYPOINTS.right_wrist])
    IN IF ~ShoulderConfident(keypoints)
       THEN [start_found |-> found, candidate_list |-> candidates]
       ELSE IF r_wr[1] > r_sh[1] \/ r_wr[2] >= r_sh[2]
       THEN [start_found |-> r_wr[2] < r_sh[2], candidate_list |-> candidates]
       ELSE [start_found |-> TRUE,
             candidate_list |-> Append(candidates,
                 <<calculate_pixel_angle_from_points(l_sh, r_sh, l_hip),
                   Abs(r_sh[1] - l_sh[1]), item.frame>>)]

\* one iteration of the for loop on an item with frame_idx <= release_frame:
\* the locals start_found and candidate_list after it, a candidate being
\* <<angle, shoulder_distance, frame_idx>>
ShoulderVisit(item, found, candidates) ==
    LET frame_idx == item.frame
        keypoints == item.keypoints
        l_sh == XY(keypoints[COCO_KEYPOINTS.left_shoulder])
        r_sh == XY(keypoints[COCO_KEYPOINTS.right_shoulder])
        l_hip == XY(keypoints[COCO_KEYPOINTS.left_hip])
        r_wr == XY(keypoints[COCO_KEYPOINTS.right_wrist])
        angle == calculate_pixel_angle_from_points(l_sh, r_sh, l_hip)
        shoulder_distance == Abs(r_sh[1] - l_sh[1])
    IN IF ~ShoulderConfident(keypoints)
       THEN [start_found |-> found, candidate_list |-> candidates]       \* continue
       ELSE IF ~found /\ ~(r_wr[2] < r_sh[2])
       THEN [start_found |-> FALSE, candidate_list |-> candidates]       \* continue
       ELSE IF r_wr[1] > r_sh[1] \/ r_wr[2] >= r_sh[2]
       THEN [start_found |-> TRUE, candidate_list |-> candidates]        \* continue
       ELSE [start_found |-> TRUE,
             candidate_list |-> Append(candidates,
                                       <<angle, shoulder_distance, frame_idx>>)]

\* the for loop over pose_sequence from item i on
RECURSIVE ShoulderScan(_, _, _, _, _)
ShoulderScan(pose_sequence, release_frame, i, found, candidates) ==
    IF i > Len(pose_sequence) THEN candidates
    ELSE IF pose_sequence[i].frame > release_frame THEN candidates        \* break
    ELSE LET after == ShoulderVisit(pose_sequence[i], found, candidates)
         IN ShoulderScan(pose_sequence, release_frame, i + 1,
                         after.start_found, after.candidate_list)

shoulder_candidate_list(pose_sequence, release_frame) ==
    ShoulderScan(pose_sequence, release_frame, 1, FALSE, <<>>)

\* sorted(candidate_list, key=lambda x: -x[1]): stable, greatest distance first
SortedByDistance(candidates) ==
    LET n == Len(candidates)
        rank(i) == Cardinality({j \in 1..n :
                       \/ candidates[j][2] > candidates[i][2]
                       \/ (candidates[j][2] = candidates[i][2] /\ j < i)}) + 1
    IN [k \in 1..n |-> candidates[CHOOSE i \in 1..n : rank(i) = k]]

\* sorted(...)[:3]
Top3(candidates) ==
    LET sorted == SortedByDistance(candidates)
    IN SubSeq(sorted, 1, IF Len(sorted) < top_n_shoulder THEN Len(sorted)
                         ELSE top_n_shoulder)

shoulder_top3(pose_sequence, release_frame) ==
    Top3(shoulder_candidate_list(pose_sequence, release_frame))

\* max(top3, key=angle) compares the angles as soon as there are two of them;
\* comparing None raises TypeError
BestRaises(top3) == Len(top3) >= 2 /\ \E c \in Range(top3) : IsNone(c[1])

\* best[2] of max(top3, key=angle) when the comparison does not raise
BestFrame(top3) ==
    IF Len(top3) = 1 THEN top3[1][3]
    ELSE top3[FirstMaxIndex([i \in 1..Len(top3) |-> Val(top3[i][1])])][3]

\* the statements after the loop: [status, value] of the call
ShoulderResult(candidates) ==
    IF candidates = <<>> THEN Returned(None)
    ELSE IF BestRaises(Top3(candidates)) THEN Raised
    ELSE Returned(Some(BestFrame(Top3(candidates))))

detect_shoulder_frame_raises(pose_sequence, release_frame) ==
    BestRaises(shoulder_top3(pose_sequence, release_frame))

\* the value returned when the call does not raise
detect_shoulder_frame(pose_sequence, release_frame) ==
    LET top3 == shoulder_top3(pose_sequence, release_frame)
    IN IF top3 = <<>> THEN None ELSE Some(BestFrame(top3))

---------------------------------------------------------------------------
(* kinematicsModule.py: feature2kinematic, extract_pitching_biomechanics *)

\* np.arctan2(y, x) * 180 / pi in whole degrees, rounded towards zero
Arctan2Degrees(y, x) ==
    IF x = 0 /\ y = 0 THEN 0
    ELSE Sign(IF y = 0 THEN 1 ELSE y) * ArccosDegrees(<<x, y>>, <<1, 0>>)

\* twice (shoulder-centre y minus hip-centre y): the midpoints are halves of
\* integer sums, so the trunk flexion values are kept in half pixels
TrunkFlexion2(keypoints) ==
    LET ls == COCO_KEYPOINTS.left_shoulder
        rs == COCO_KEYPOINTS.right_shoulder
        lh == COCO_KEYPOINTS.left_hip
        rh == COCO_KEYPOINTS.right_hip
    IN (keypoints[ls][2] + keypoints[rs][2]) - (keypoints[lh][2] + keypoints[rh][2])

\* release_frame and landing_frame are None or <<n>>; pose_sequence is not empty.
\* The result is the dict kinematic; its values are None or <<number>>.
feature2kinematic(pose_sequence, release_frame, landing_frame) ==
    LET ls == COCO_KEYPOINTS.left_shoulder
        rs == COCO_KEYPOINTS.right_shoulder
        lh == COCO_KEYPOINTS.left_hip
        rh == COCO_KEYPOINTS.right_hip
        re == COCO_KEYPOINTS.right_elbow
        rw == COCO_KEYPOINTS.right_wrist
        trunk_flexions == {TrunkFlexion2(pose_sequence[i].keypoints) :
                              i \in 1..Len(pose_sequence)}
        excursion == "Trunk_flexion_excursion" :>
                         Some(SetMax(trunk_flexions) - SetMin(trunk_flexions))
        keypoints_fc == get_keypoints_at(pose_sequence, landing_frame)
        pelvis == IF IsNone(keypoints_fc) THEN EmptyDict
                  ELSE "Pelvis_obliquity_at_FC" :>
                           Some(Val(keypoints_fc)[lh][2] - Val(keypoints_fc)[rh][2])
        keypoints_br == get_keypoints_at(pose_sequence, release_frame)
        at_br == IF IsNone(keypoints_br) THEN EmptyDict
                 ELSE LET k == Val(keypoints_br)
                          shoulder_vec == <<k[ls][1] - k[rs][1], k[ls][2] - k[rs][2]>>
                      IN ("Trunk_rotation_at_BR" :>
                              Some(Arctan2Degrees(shoulder_vec[2], shoulder_vec[1])))
                         @@ ("Shoulder_abduction_at_BR" :>
                              calculate_pixel_angle_from_points(
                                  XY(k[rw]), XY(k[re]), XY(k[rs])))
                         @@ ("Trunk_flexion_at_BR" :> Some(TrunkFlexion2(k)))
        keypoints_hs == get_keypoints_at(pose_sequence, Some(pose_sequence[1].frame))
        lateral == IF IsNone(keypoints_hs) THEN EmptyDict
                   ELSE "Trunk_lateral_flexion_at_HS" :>
                            Some(Val(keypoints_hs)[ls][2] - Val(keypoints_hs)[rs][2])
    IN excursion @@ pelvis @@ at_br @@ lateral

\* the dict that extract_pitching_biomechanics returns after the detectors ran
BiomechanicsRecord(pose_sequence, release_frame, landing_frame, shoulder_frame) ==
    LET kinematic == feature2kinematic(pose_sequence, release_frame, landing_frame)
    IN [k \in {"release_frame", "landing_frame", "shoulder_frame", "total_frames",
               "Trunk_flexion_excursion", "Pelvis_obliquity_at_FC",
               "Trunk_rotation_at_BR", "Shoulder_abduction_at_BR",
               "Trunk_flexion_at_BR", "Trunk_lateral_flexion_at_HS"} |->
          CASE k = "release_frame" -> release_frame
            [] k = "landing_frame" -> landing_frame
            [] k = "shoulder_frame" -> shoulder_frame
            [] k = "total_frames" -> Some(Len(pose_sequence))
            [] OTHER -> Get(kinematic, k)]

\* extract_pitching_biomechanics(result): Returned(dict) or Raised
extract_pitching_biomechanics(frames) ==
    LET pose_sequence == load_pose_from_response(frames)
    IN IF pose_sequence = <<>> THEN Returned(EmptyDict)
       ELSE IF detect_release_frame_raises(pose_sequence) THEN Raised
       ELSE
         LET release_frame == detect_release_frame(pose_sequence)
         IN IF IsNone(release_frame) THEN Returned(EmptyDict)
            ELSE
              LET landing_frame == detect_landing_frame(pose_sequence, Val(release_frame),
                                                        back_offset_default)
              IN IF detect_shoulder_frame_raises(pose_sequence, Val(release_frame))
                 THEN Raised
                 ELSE Returned(BiomechanicsRecord(
                          pose_sequence, release_frame, landing_frame,
                          detect_shoulder_frame(pose_sequence, Val(release_frame))))

---------------------------------------------------------------------------
(* services.py: calculate_score_from_comparison *)

RECURSIVE GCD(_, _)
GCD(a, b) == IF b = 0 THEN a ELSE GCD(b, a % b)

\* fractions <<numerator, denominator>>, denominator > 0, in lowest terms
Frac(n, d) == LET g == GCD(Abs(n), d) IN <<n \div g, d \div g>>
FracAdd(p, q) == Frac(p[1] * q[2] + q[1] * p[2], p[2] * q[2])
FracLess(p, q) == p[1] * q[2] < q[1] * p[2]
\* int(p / n) for p >= 0, n > 0
FracDivTrunc(p, n) == p[1] \div (p[2] * n)

\* str.lower() on the keys of the feature record
Lower(key) ==
    CASE key = "Trunk_flexion_excursion" -> "trunk_flexion_excursion"
      [] key = "Pelvis_obliquity_at_FC" -> "pelvis_obliquity_at_fc"
      [] key = "Trunk_rotation_at_BR" -> "trunk_rotation_at_br"
      [] key = "Shoulder_abduction_at_BR" -> "shoulder_abduction_at_br"
      [] key = "Trunk_flexion_at_BR" -> "trunk_flexion_at_br"
      [] key = "Trunk_lateral_flexion_at_HS" -> "trunk_lateral_flexion_at_hs"
      [] OTHER -> key

score_full == 100        \* the score of a z-score of 0
score_per_std == 25      \* points lost per standard deviation

\* mutant: the floor at 0 is missing
FeatureScore_nofloor(user_value, mean, std) ==
    Frac(score_full * Abs(std) - score_per_std * Abs(user_value - mean), Abs(std))

\* mutant: the deviation keeps its sign
FeatureScore_signed(user_value, mean, std) ==
    LET raw == Frac(score_full * Abs(std) - score_per_std * (user_value - mean) * Sign(std),
                   Abs(std))
    IN IF FracLess(raw, <<0, 1>>) THEN <<0, 1>> ELSE raw

\* max(0, 100 - abs((user_value - mean) / std) * 25), std # 0
FeatureScore(user_value, mean, std) ==
    LET z_score == Frac(Abs(user_value - mean), Abs(std))
        raw == Frac(score_full * z_score[2] - score_per_std * z_score[1], z_score[2])
    IN IF FracLess(raw, <<0, 1>>) THEN <<0, 1>> ELSE raw

\* SkipsFeature also skipping the four frame-number fields
SkipsFeature_frame_fields(key, user_value, profile) ==
    LET profile_stats == Get(profile, Lower(key))
    IN \/ key \in {"release_frame", "landing_frame", "shoulder_frame", "total_frames"}
       \/ profile_stats = <<>> \/ user_value = None
       \/ Get(profile_stats, "mean") = None
       \/ Get(profile_stats, "std") = None
       \/ Val(Get(profile_stats, "std")) = 0

\* the two "continue" tests of the loop body
SkipsFeature(key, user_value, profile) ==
    LET profile_stats == Get(profile, Lower(key))
    IN \/ profile_stats = <<>> \/ user_value = None          \* not profile_stats or None
       \/ Get(profile_stats, "mean") = None
       \/ Get(profile_stats, "std") = None
       \/ Val(Get(profile_stats, "std")) = 0

\* mutant: a skipped feature still counts in the divisor
CountAfter_all(count, key, user_value, profile) == count + 1

CountAfter(count, key, user_value, profile) ==
    IF SkipsFeature(key, user_value, profile) THEN count ELSE count + 1

\* mutant: the result is rounded to the nearest integer
FinalScore_rounded(total, count) ==
    IF count = 0 THEN 0 ELSE (2 * total[1] + total[2] * count) \div (2 * total[2] * count)

\* mutant: without scored features the score defaults to the full score
FinalScore_full_by_default(total, count) ==
    IF count = 0 THEN score_full ELSE FracDivTrunc(total, count)

\* lines 126-131: 0 without scored features, else int(total_score / feature_count)
FinalScore(total, count) ==
    IF count = 0 THEN 0 ELSE FracDivTrunc(total, count)

\* a fixed visiting order of a dict's keys (the sum does not depend on it)
RECURSIVE KeyOrder(_)
KeyOrder(keys) ==
    IF keys = {} THEN <<>>
    ELSE LET k == CHOOSE x \in keys : TRUE IN <<k>> \o KeyOrder(keys \ {k})

\* entry: "if not profile_data: return 0", else the locals are initialised
ScoreEnter ==
    /\ sc_pc = "call"
    /\ IF profile_data = <<>>
       THEN /\ sc_ret' = Returned(0)
            /\ sc_pc' = "done"
            /\ UNCHANGED <<sc_todo, total_score, feature_count>>
       ELSE /\ total_score' = <<0, 1>>
            /\ feature_count' = 0
            /\ sc_todo' = KeyOrder(DOMAIN features)
            /\ sc_pc' = "loop"
            /\ UNCHANGED sc_ret
    /\ UNCHANGED <<features, profile_data, feature_score>>
    /\ UNCHANGED <<landVars, kinVars, svcVars, ballVars, profVars, angleVars, shVars, ingVars>>

\* one pass of "for key, user_value in features.items()"
ScoreIterate ==
    /\ sc_pc = "loop"
    /\ sc_todo # <<>>
    /\ LET key == Head(sc_todo)
           user_value == features[key]
       IN /\ IF SkipsFeature(key, user_value, profile_data)
             THEN UNCHANGED <<total_score, feature_score>>
             ELSE LET profile_stats == Get(profile_data, Lower(key))
                      s == FeatureScore(Val(user_value), Val(profile_stats.mean),
                                        Val(profile_stats.std))
                  IN /\ feature_score' = Some(s)
                     /\ total_score' = FracAdd(total_score, s)
          /\ feature_count' = CountAfter(feature_count, key, user_value, profile_data)
    /\ sc_todo' = Tail(sc_todo)
    /\ UNCHANGED <<sc_pc, features, profile_data, sc_ret>>
    /\ UNCHANGED <<landVars, kinVars, svcVars, ballVars, profVars, angleVars, shVars, ingVars>>

ScoreReturn ==
    /\ sc_pc = "loop"
    /\ sc_todo = <<>>
    /\ sc_ret' = Returned(FinalScore(total_score, feature_count))
    /\ sc_pc' = "done"
    /\ UNCHANGED <<features, profile_data, sc_todo, total_score, feature_count,
                   feature_score>>
    /\ UNCHANGED <<landVars, kinVars, svcVars, ballVars, profVars, angleVars, shVars, ingVars>>

---------------------------------------------------------------------------
(* Inputs of the scorer and of the service *)

SubjectKeys == {"Trunk_rotation_at_BR", "release_frame"}
ProfileKeys == {"trunk_rotation_at_br", "release_frame"}

OptValues == {None} \cup {Some(v) : v \in 0..MaxValue}
OptMeans == {None, Some(0), Some(1)}
OptStds == {None, Some(0), Some(1), Some(3), Some(-1)}

\* a stats entry: the empty dict, or a dict whose mean / std may be null
StatsInputs == {EmptyDict} \cup [mean : OptMeans, std : OptStds]

FeatureInputs == UNION {[K -> OptValues] : K \in SUBSET SubjectKeys}
ProfileInputs == UNION {[K -> StatsInputs] : K \in SUBSET ProfileKeys}

\* what the pose task hands to the service
ServiceFeatures ==
    {EmptyDict,
     ("Trunk_rotation_at_BR" :> Some(4)) @@ ("release_frame" :> Some(3))
         @@ ("landing_frame" :> None)}

\* predicted_pitch_type of the ball response ("Unknown" also when it is missing)
PitchTypes == {"FF", "Unknown", ""}

ProfileFF ==
    ("trunk_rotation_at_br" :> [mean |-> Some(1), std |-> Some(3)])
        @@ ("release_frame" :> [mean |-> Some(3), std |-> Some(1)])
ProfileAll ==
    ("trunk_rotation_at_br" :> [mean |-> Some(0), std |-> Some(1)])
        @@ ("landing_frame" :> [mean |-> Some(2), std |-> Some(1)])
ProfileZeroStd == "release_frame" :> [mean |-> Some(3), std |-> Some(0)]

ModelRows(player, suffix) ==
    {[model_name |-> <<player, suffix, "v1">>, profile_data |-> pd] :
        pd \in IF suffix = "all" THEN {ProfileAll, ProfileZeroStd} ELSE {ProfileFF}}

\* tables with at most one row per model name
DbInputs ==
    {a \cup b \cup c \cup d :
        a \in {{}} \cup {{r} : r \in ModelRows("A", "FF")},
        b \in {{}} \cup {{r} : r \in ModelRows("A", "all")},
        c \in {{}} \cup {{r} : r \in ModelRows("B", "FF")},
        d \in {{}} \cup {{r} : r \in ModelRows("B", "all")}}

RequestInputs ==
    [player_name : {"A"}, benchmark_player_name : {None, Some(""), Some("B")}]

---------------------------------------------------------------------------
(* services.py: get_comparison_model, analyze_pitch_service *)

\* the model name f"{player}_{suffix}_v1", kept as its three parts
ModelName(benchmark_player_name, suffix) == <<benchmark_player_name, suffix, "v1">>

\* crud.get_pitch_model_by_name: the row of that name (model_name is unique), or None
get_pitch_model_by_name(db, model_name) ==
    LET rows == {row \in db : row.model_name = model_name}
    IN IF rows = {} THEN None ELSE Some(CHOOSE row \in rows : TRUE)

\* mutant: the all-pitch-types model is tried first
get_comparison_model_fallback_first(db, benchmark_player_name, detected_pitch_type) ==
    LET fallback == get_pitch_model_by_name(db, ModelName(benchmark_player_name, "all"))
    IN IF fallback # None \/ detected_pitch_type \in {"", "Unknown"} THEN fallback
       ELSE get_pitch_model_by_name(db, ModelName(benchmark_player_name,
                                                  detected_pitch_type))

get_comparison_model(db, benchmark_player_name, detected_pitch_type) ==
    LET ideal == IF detected_pitch_type # "" /\ detected_pitch_type # "Unknown"
                 THEN get_pitch_model_by_name(
                          db, ModelName(benchmark_player_name, detected_pitch_type))
                 ELSE None
    IN IF ideal # None THEN ideal
       ELSE get_pitch_model_by_name(db, ModelName(benchmark_player_name, "all"))

\* the names passed to crud.get_pitch_model_by_name by one call, in order
comparison_queries(db, benchmark_player_name, detected_pitch_type) ==
    LET ideal_model_name == ModelName(benchmark_player_name, detected_pitch_type)
        fallback_model_name == ModelName(benchmark_player_name, "all")
    IN IF detected_pitch_type # "" /\ detected_pitch_type # "Unknown"
       THEN IF get_pitch_model_by_name(db, ideal_model_name) # None
            THEN <<ideal_model_name>>
            ELSE <<ideal_model_name, fallback_model_name>>
       ELSE <<fallback_model_name>>

\* benchmark_player_name if benchmark_player_name else player_name
comparison_target_name(req) ==
    IF req.benchmark_player_name # None /\ Val(req.benchmark_player_name) # ""
    THEN Val(req.benchmark_player_name)
    ELSE req.player_name

\* lines 140-151: the upload is copied to a temporary file and both calls start
SvcStart ==
    /\ svc_pc = "start"
    /\ temp_exists' = TRUE
    /\ pose_task' = [state |-> "running", value |-> None]
    /\ ball_task' = [state |-> "running", value |-> None]
    /\ svc_pc' = "gather"
    /\ UNCHANGED <<svc_req, db_models, db_queries, profile_model, pitch_score, svc_exc, svc_ret>>
    /\ UNCHANGED <<landVars, kinVars, scoreVars, ballVars, profVars, angleVars, shVars, ingVars>>

\* analyze_video_kinematics ends: features of the pose response, or an exception
PoseTaskEnds ==
    /\ pose_task.state = "running"
    /\ \/ \E f \in ServiceFeatures : pose_task' = [state |-> "done", value |-> f]
       \/ pose_task' = [state |-> "failed", value |-> None]
    /\ UNCHANGED <<svc_pc, svc_req, db_models, db_queries, temp_exists, ball_task, profile_model,
                   pitch_score, svc_exc, svc_ret>>
    /\ UNCHANGED <<landVars, kinVars, scoreVars, ballVars, profVars, angleVars, shVars, ingVars>>

\* analyze_ball_flight ends: ball_data.get("predicted_pitch_type", "Unknown"),
\* or an exception
BallTaskEnds ==
    /\ ball_task.state = "running"
    /\ \/ \E t \in PitchTypes : ball_task' = [state |-> "done", value |-> t]
       \/ ball_task' = [state |-> "failed", value |-> None]
    /\ UNCHANGED <<svc_pc, svc_req, db_models, db_queries, temp_exists, pose_task, profile_model,
                   pitch_score, svc_exc, svc_ret>>
    /\ UNCHANGED <<landVars, kinVars, scoreVars, ballVars, profVars, angleVars, shVars, ingVars>>

\* asyncio.gather returns once both tasks are done
GatherReturns ==
    /\ svc_pc = "gather"
    /\ pose_task.state = "done" /\ ball_task.state = "done"
    /\ svc_pc' = "select"
    /\ UNCHANGED <<svc_req, db_models, db_queries, temp_exists, pose_task, ball_task, profile_model,
                   pitch_score, svc_exc, svc_ret>>
    /\ UNCHANGED <<landVars, kinVars, scoreVars, ballVars, profVars, angleVars, shVars, ingVars>>

\* asyncio.gather raises as soon as one task has failed
GatherRaises ==
    /\ svc_pc = "gather"
    /\ pose_task.state = "failed" \/ ball_task.state = "failed"
    /\ svc_exc' = TRUE
    /\ svc_pc' = "finally"
    /\ UNCHANGED <<svc_req, db_models, db_queries, temp_exists, pose_task, ball_task, profile_model,
                   pitch_score, svc_ret>>
    /\ UNCHANGED <<landVars, kinVars, scoreVars, ballVars, profVars, angleVars, shVars, ingVars>>

\* lines 152-169: the model is selected; with a model the scorer is called,
\* without one pitch_score stays 0
SvcSelectModel ==
    /\ svc_pc = "select"
    /\ LET model == get_comparison_model(db_models, comparison_target_name(svc_req),
                                         ball_task.value)
       IN /\ profile_model' = model
          /\ db_queries' = comparison_queries(db_models, comparison_target_name(svc_req),
                                               ball_task.value)
          /\ pitch_score' = 0
          /\ IF model # None
             THEN /\ features' = pose_task.value
                  /\ profile_data' = Val(model).profile_data
                  /\ sc_pc' = "call"
                  /\ svc_pc' = "scoring"
             ELSE /\ UNCHANGED <<features, profile_data, sc_pc>>
                  /\ svc_pc' = "ball"
    /\ UNCHANGED <<sc_todo, total_score, feature_count, feature_score, sc_ret>>
    /\ UNCHANGED <<svc_req, db_models, temp_exists, pose_task, ball_task, svc_exc,
                   svc_ret>>
    /\ UNCHANGED <<landVars, kinVars, ballVars, profVars, angleVars, shVars, ingVars>>

\* calculate_score_from_comparison has returned into pitch_score
SvcScoreReturns ==
    /\ svc_pc = "scoring"
    /\ sc_pc = "done"
    /\ pitch_score' = sc_ret.value
    /\ svc_pc' = "ball"
    /\ UNCHANGED <<svc_req, db_models, db_queries, temp_exists, pose_task, ball_task, profile_model,
                   svc_exc, svc_ret>>
    /\ UNCHANGED <<landVars, kinVars, scoreVars, ballVars, profVars, angleVars, shVars, ingVars>>

\* lines 171-183: ball score and rendering, either of which may raise
SvcBallAndRender ==
    /\ svc_pc = "ball"
    /\ svc_exc' \in BOOLEAN
    /\ svc_pc' = "finally"
    /\ UNCHANGED <<svc_req, db_models, db_queries, temp_exists, pose_task, ball_task, profile_model,
                   pitch_score, svc_ret>>
    /\ UNCHANGED <<landVars, kinVars, scoreVars, ballVars, profVars, angleVars, shVars, ingVars>>

\* SvcFinally removing the temporary file only when no exception propagates
SvcFinally_keeps_file_on_error ==
    /\ svc_pc = "finally"
    /\ temp_exists' = svc_exc
    /\ svc_ret' = IF svc_exc THEN Raised
                  ELSE Returned([pitcher_name |-> svc_req.player_name,
                                 detected_pitch_type |-> ball_task.value,
                                 pitch_score |-> pitch_score,
                                 user_features |-> pose_task.value,
                                 model_name |-> IF profile_model # None
                                                THEN Some(Val(profile_model).model_name)
                                                ELSE None])
    /\ svc_pc' = "done"
    /\ UNCHANGED <<svc_req, db_models, db_queries, pose_task, ball_task, profile_model,
                   pitch_score, svc_exc>>
    /\ UNCHANGED <<landVars, kinVars, scoreVars, ballVars, profVars, angleVars, shVars, ingVars>>

\* lines 185-207: the result is built; the finally block removes the temporary
\* file on the way out, with or without an exception
SvcFinally ==
    /\ svc_pc = "finally"
    /\ temp_exists' = FALSE
    /\ svc_ret' = IF svc_exc THEN Raised
                  ELSE Returned([pitcher_name |-> svc_req.player_name,
                                 detected_pitch_type |-> ball_task.value,
                                 pitch_score |-> pitch_score,
                                 user_features |-> pose_task.value,
                                 model_name |-> IF profile_model # None
                                                THEN Some(Val(profile_model).model_name)
                                                ELSE None])
    /\ svc_pc' = "done"
    /\ UNCHANGED <<svc_req, db_models, db_queries, pose_task, ball_task, profile_model,
                   pitch_score, svc_exc>>
    /\ UNCHANGED <<landVars, kinVars, scoreVars, ballVars, profVars, angleVars, shVars, ingVars>>

---------------------------------------------------------------------------
(* Poses the inputs are drawn from (pixel coordinates, y grows downwards) *)

\* 17 keypoint rows; the joints no detector reads are at the origin
Keypoints(ls, rs, re, rw, lh, rh) ==
    [j \in 0..(NumKeypoints - 1) |->
        CASE j = COCO_KEYPOINTS.left_shoulder -> ls
          [] j = COCO_KEYPOINTS.right_shoulder -> rs
          [] j = COCO_KEYPOINTS.right_elbow -> re
          [] j = COCO_KEYPOINTS.right_wrist -> rw
          [] j = COCO_KEYPOINTS.left_hip -> lh
          [] j = COCO_KEYPOINTS.right_hip -> rh
          [] OTHER -> IF Len(ls) = 2 THEN <<0, 0>> ELSE <<0, 0, ConfOne>>]

\* set position: throwing arm hanging down
SetPose == Keypoints(<<4, 2, 10>>, <<2, 2, 10>>, <<2, 3, 10>>, <<2, 4, 10>>,
                     <<4, 5, 10>>, <<2, 5, 10>>)
\* arm cocked: wrist above and behind the shoulder, elbow not behind the wrist
CockPose == Keypoints(<<5, 2, 9>>, <<2, 2, 9>>, <<1, 2, 9>>, <<1, 0, 8>>,
                      <<4, 5, 9>>, <<2, 6, 9>>)
\* arm cocked, the two shoulders detected at the same pixel
CockFlatPose == Keypoints(<<2, 2, 9>>, <<2, 2, 9>>, <<1, 2, 9>>, <<1, 0, 8>>,
                          <<4, 5, 9>>, <<2, 5, 9>>)
\* arm cocked, right wrist detected with confidence 0.2
CockLowConfPose == Keypoints(<<6, 2, 9>>, <<2, 2, 9>>, <<1, 2, 9>>, <<1, 0, 2>>,
                             <<4, 5, 9>>, <<2, 5, 9>>)
\* release: arm stretched forward and up (elbow angle 180)
ReleasePose == Keypoints(<<4, 2, 10>>, <<2, 2, 10>>, <<3, 1, 10>>, <<4, 0, 10>>,
                         <<4, 5, 10>>, <<2, 5, 10>>)
\* release with a bent elbow, keypoints given as (x, y) only
ReleaseBentPose == Keypoints(<<4, 3>>, <<2, 2>>, <<2, 1>>, <<4, 0>>,
                             <<4, 5>>, <<2, 4>>)
\* release-like frame with elbow and shoulder detected at the same pixel
ReleaseDegeneratePose == Keypoints(<<4, 2, 10>>, <<2, 2, 10>>, <<2, 2, 10>>,
                                   <<3, 1, 10>>, <<4, 5, 10>>, <<2, 5, 10>>)

\* the predictions list of a frame: empty when no subject was detected
NoPrediction == <<>>
Prediction(keypoints) == <<[keypoints |-> keypoints]>>

LeadPredictions == Prediction(SetPose)
TailPredictions ==
    {NoPrediction, Prediction(SetPose), Prediction(CockPose), Prediction(CockFlatPose),
     Prediction(CockLowConfPose), Prediction(ReleasePose), Prediction(ReleaseBentPose),
     Prediction(ReleaseDegeneratePose)}

---------------------------------------------------------------------------
(* State machine of detect_landing_frame applied to any sequence and frame *)

LandIdle == lf_seq = <<>> /\ lf_release = None /\ lf_ret = Pending
KinIdle == result_json = <<>> /\ kin_ret = Pending
ScoreIdle ==
    /\ sc_pc = "idle" /\ features = EmptyDict /\ profile_data = None /\ sc_todo = <<>>
    /\ total_score = <<0, 1>> /\ feature_count = 0 /\ feature_score = None
    /\ sc_ret = Pending
NoTask == [state |-> "none", value |-> None]
ServiceIdle ==
    /\ svc_pc = "idle" /\ svc_req = None /\ db_models = {} /\ db_queries = <<>>
    /\ temp_exists = FALSE
    /\ pose_task = NoTask /\ ball_task = NoTask /\ profile_model = None
    /\ pitch_score = 0 /\ svc_exc = FALSE /\ svc_ret = Pending
BallIdle ==
    /\ ball_results = <<>> /\ x_list = <<>> /\ y_list = <<>> /\ ball_df = None
    /\ ball_ret = Pending
ProfileIdle == features_data = <<>> /\ pf_ret = Pending
AngleIdle ==
    ang_args = None /\ ang_divisors = <<>> /\ ang_ret = Pending /\ ang_swapped = Pending
IngestIdle ==
    /\ ing_pc = "idle" /\ ing_runs = 0 /\ ing_todo = <<>> /\ ing_new_id = None
    /\ pitch_record = <<>> /\ kinematics = <<>>
ShoulderIdle ==
    /\ sh_seq = <<>> /\ sh_release = None /\ sh_i = 1 /\ start_found = FALSE
    /\ candidate_list = <<>> /\ sh_ret = Pending

\* the caller's sequence grows by one frame with a greater frame number
LandingAppendFrame ==
    /\ lf_ret = Pending
    /\ \E f \in 0..MaxFrameIdx :
          /\ lf_seq # <<>> => f > lf_seq[Len(lf_seq)].frame
          /\ lf_seq' = Append(lf_seq, [frame |-> f, keypoints |-> SetPose])
    /\ UNCHANGED <<lf_release, lf_ret, kinVars, scoreVars, svcVars, ballVars, profVars,
                   angleVars, shVars, ingVars>>

DetectLandingFrame ==
    /\ lf_ret = Pending
    /\ \E r \in 0..MaxFrameIdx :
          /\ lf_release' = Some(r)
          /\ lf_ret' = Returned(detect_landing_frame(lf_seq, r, back_offset_default))
    /\ UNCHANGED <<lf_seq, kinVars, scoreVars, svcVars, ballVars, profVars, angleVars, shVars,
                   ingVars>>

InitLanding ==
    LandIdle /\ KinIdle /\ ScoreIdle /\ ServiceIdle /\ BallIdle /\ ProfileIdle
    /\ AngleIdle
    /\ ShoulderIdle /\ IngestIdle
NextLanding == LandingAppendFrame \/ DetectLandingFrame
SpecLanding == InitLanding /\ [][NextLanding]_vars

---------------------------------------------------------------------------
(* State machine of the pose pipeline: the response arrives frame by frame, *)
(* then extract_pitching_biomechanics runs on it                            *)

\* number of leading set-position frames, at most MaxLead
LeadLen(frames) ==
    LET n == Len(frames)
        k == SetMax({i \in 0..n : \A j \in 1..i : frames[j].predictions = LeadPredictions})
    IN IF k > MaxLead THEN MaxLead ELSE k

PoseApiFrame ==
    /\ kin_ret = Pending
    /\ \E p \in TailPredictions :
          /\ \/ Len(result_json) - LeadLen(result_json) < MaxTail
             \/ /\ p = LeadPredictions
                /\ LeadLen(result_json) = Len(result_json)
                /\ Len(result_json) < MaxLead
          /\ result_json' = Append(result_json,
                                   [frame_idx |-> Len(result_json), predictions |-> p])
    /\ UNCHANGED <<kin_ret, landVars, scoreVars, svcVars, ballVars, profVars, angleVars,
                   shVars, ingVars>>

ExtractPitchingBiomechanics ==
    /\ kin_ret = Pending
    /\ kin_ret' = extract_pitching_biomechanics(result_json)
    /\ UNCHANGED <<result_json, landVars, scoreVars, svcVars, ballVars, profVars, angleVars,
                   shVars, ingVars>>

InitKin ==
    LandIdle /\ KinIdle /\ ScoreIdle /\ ServiceIdle /\ BallIdle /\ ProfileIdle
    /\ AngleIdle
    /\ ShoulderIdle /\ IngestIdle
NextKin == PoseApiFrame \/ ExtractPitchingBiomechanics
SpecKin == InitKin /\ [][NextKin]_vars

---------------------------------------------------------------------------
(* State machine of the scorer: called directly on any record and profile,  *)
(* or by analyze_pitch_service on the profile it selected                   *)

InitScoreCall ==
    /\ sc_pc = "call"
    /\ features \in FeatureInputs
    /\ profile_data \in ProfileInputs
    /\ sc_todo = <<>> /\ total_score = <<0, 1>> /\ feature_count = 0
    /\ feature_score = None /\ sc_ret = Pending

InitService ==
    /\ svc_pc = "start"
    /\ svc_req \in RequestInputs
    /\ db_models \in DbInputs
    /\ db_queries = <<>>
    /\ temp_exists = FALSE /\ pose_task = NoTask /\ ball_task = NoTask
    /\ profile_model = None /\ pitch_score = 0 /\ svc_exc = FALSE /\ svc_ret = Pending

InitScore ==
    /\ LandIdle /\ KinIdle /\ BallIdle /\ ProfileIdle
    /\ AngleIdle
    /\ ShoulderIdle /\ IngestIdle
    /\ \/ InitScoreCall /\ ServiceIdle
       \/ ScoreIdle /\ InitService

NextScore ==
    \/ ScoreEnter \/ ScoreIterate \/ ScoreReturn
    \/ SvcStart \/ PoseTaskEnds \/ BallTaskEnds \/ GatherReturns \/ GatherRaises
    \/ SvcSelectModel \/ SvcScoreReturns \/ SvcBallAndRender \/ SvcFinally

SpecScore == InitScore /\ [][NextScore]_vars

---------------------------------------------------------------------------
(* classify_ball_quality (ballClassification.py).  An item of the results   *)
(* is <<frame, coords>>; coords is None or <<list>>, a coordinate is None   *)
(* or <<number>>; a center is None or <<fraction>>.                         *)

target_length_default == 239     \* def classify_ball_quality(..., target_length=239)

\* BoxCenter accepting any box of at least 4 coordinates
BoxCenter_four_or_more(item) ==
    LET coords == item[2]
    IN IF coords # None /\ Len(Val(coords)) >= 4
       THEN LET c == Val(coords)
            IN IF \A j \in 1..4 : c[j] # None
               THEN <<Some(Frac(Val(c[1]) + Val(c[3]), 2)),
                      Some(Frac(Val(c[2]) + Val(c[4]), 2))>>
               ELSE <<None, None>>
       ELSE <<None, None>>

\* loop body, lines 15-31: the (center_x, center_y) appended for one item
BoxCenter(item) ==
    LET coords == item[2]
    IN IF coords # None /\ Len(Val(coords)) = 4
       THEN LET c == Val(coords)
            IN IF \A j \in 1..4 : c[j] # None
               THEN <<Some(Frac(Val(c[1]) + Val(c[3]), 2)),
                      Some(Frac(Val(c[2]) + Val(c[4]), 2))>>
               ELSE <<None, None>>
       ELSE <<None, None>>

\* lines 34-36: append None while the list is shorter than target_length
PadWithNone(list, target_length) ==
    IF Len(list) < target_length
    THEN list \o [i \in 1..(target_length - Len(list)) |-> None]
    ELSE list

\* mutant: the slice keeps the last target_length entries
Truncate_last(list, target_length) ==
    IF Len(list) <= target_length THEN list
    ELSE SubSeq(list, Len(list) - target_length + 1, Len(list))

\* lines 39-40: list[:target_length]
Truncate(list, target_length) ==
    IF Len(list) <= target_length THEN list ELSE SubSeq(list, 1, target_length)

\* line 43: x_0 .. x_{n-1} then y_0 .. y_{n-1}; a name f'x_{i}' is <<"x", i>>
Columns(target_length) ==
    [i \in 1..(2 * target_length) |->
        IF i <= target_length THEN <<"x", i - 1>> ELSE <<"y", i - target_length - 1>>]

\* lines 10-47: the two lists and the one-row frame built from the results
BallVectors(results, target_length) ==
    LET xs == [i \in 1..Len(results) |-> BoxCenter(results[i])[1]]
        ys == [i \in 1..Len(results) |-> BoxCenter(results[i])[2]]
        xt == Truncate(PadWithNone(xs, target_length), target_length)
        yt == Truncate(PadWithNone(ys, target_length), target_length)
    IN [x_list |-> xt, y_list |-> yt,
        df |-> [columns |-> Columns(target_length), values |-> xt \o yt]]

\* line 54: model.predict_proba is the classifier loaded by the service; it
\* answers with a probability (here in percent) or rejects the frame
PredictProbaOutcomes == {Returned(0), Returned(50), Returned(100), Raised}

---------------------------------------------------------------------------
(* State machine of classify_ball_quality: the results of the ball API      *)
(* arrive entry by entry, then the function runs on them                   *)

MaxResults == 241     \* longest result list that is tried

BallEntry(kind, i) ==
    CASE kind = "box" -> Some(<<Some(i), Some(2 * i + 1), Some(i + 1), Some(2 * i + 2)>>)
      [] kind = "zero" -> Some(<<Some(0), Some(0), Some(0), Some(0)>>)
      [] kind = "none" -> None
      [] kind = "short" -> Some(<<Some(i), Some(i), Some(i)>>)
      [] kind = "long" -> Some(<<Some(i), Some(i), Some(i), Some(i), Some(i)>>)
      [] kind = "null" -> Some(<<Some(i), None, Some(i + 1), Some(2 * i + 2)>>)

KindCycle == <<"box", "none", "box", "short", "zero", "long", "null">>

\* the kinds tried for entry i: chosen freely for the first entry and from
\* position target_length - 1 on, a fixed cycle in between
KindsAt(i) ==
    IF i = 0 THEN {"box", "none", "null"}
    ELSE IF i >= target_length_default - 1 THEN {"box", "none"}
    ELSE {KindCycle[(i % Len(KindCycle)) + 1]}

BallApiEntry ==
    /\ ball_ret = Pending
    /\ Len(ball_results) < MaxResults
    /\ \E kind \in KindsAt(Len(ball_results)) :
          ball_results' = Append(ball_results,
                                 <<Len(ball_results), BallEntry(kind, Len(ball_results))>>)
    /\ UNCHANGED <<x_list, y_list, ball_df, ball_ret>>
    /\ UNCHANGED <<landVars, kinVars, scoreVars, svcVars, profVars, angleVars, shVars, ingVars>>

ClassifyBallQuality ==
    /\ ball_ret = Pending
    /\ LET v == BallVectors(ball_results, target_length_default)
       IN /\ x_list' = v.x_list
          /\ y_list' = v.y_list
          /\ ball_df' = Some(v.df)
    /\ \E outcome \in PredictProbaOutcomes : ball_ret' = outcome
    /\ UNCHANGED ball_results
    /\ UNCHANGED <<landVars, kinVars, scoreVars, svcVars, profVars, angleVars, shVars, ingVars>>

InitBall ==
    LandIdle /\ KinIdle /\ ScoreIdle /\ ServiceIdle /\ BallIdle /\ ProfileIdle
    /\ AngleIdle
    /\ ShoulderIdle /\ IngestIdle
NextBall == BallApiEntry \/ ClassifyBallQuality
SpecBall == InitBall /\ [][NextBall]_vars

---------------------------------------------------------------------------
(* create_pitch_profile (buildModel.py).  A record is a dict column ->      *)
(* None or <<integer>>; a statistic is an integer number of ten-thousandths *)
(* (four decimals), computed in real arithmetic and rounded as round(., 4). *)

Decimals4 == 10000     \* round(..., 4)

feature_columns ==
    <<"trunk_flexion_excursion", "pelvis_obliquity_at_fc",
      "trunk_rotation_at_br", "shoulder_abduction_at_br",
      "trunk_flexion_at_br", "trunk_lateral_flexion_at_hs",
      "release_frame", "landing_frame", "shoulder_frame", "total_frames">>

\* pd.DataFrame(features_data).columns: every key of every record
DataFrameColumns(data) == UNION {DOMAIN data[i] : i \in DOMAIN data}

\* df[col_name].dropna(): a missing key and None are both NaN
DropNa(data, col_name) ==
    LET kept == SelectSeq(data, LAMBDA r : Get(r, col_name) # None)
    IN [i \in 1..Len(kept) |-> Val(kept[i][col_name])]

RECURSIVE SortAsc(_)
SortAsc(values) ==
    IF values = <<>> THEN <<>>
    ELSE LET least == SetMin(Range(values))
             i == CHOOSE j \in DOMAIN values : values[j] = least
         IN <<least>> \o SortAsc(SubSeq(values, 1, i - 1) \o
                                 SubSeq(values, i + 1, Len(values)))

RECURSIVE SeqSum(_)
SeqSum(values) == IF values = <<>> THEN 0 ELSE Head(values) + SeqSum(Tail(values))

\* round(num / den) to the nearest integer, ties to even; den > 0
RoundHalfEven(num, den) ==
    LET q == num \div den
        r == num % den
    IN IF 2 * r < den THEN q
       ELSE IF 2 * r > den THEN q + 1
       ELSE IF q % 2 = 0 THEN q ELSE q + 1

\* mutant: the exclusive percentile, position q * (n + 1) - 1 kept inside the list
Quantile_exclusive(values, q_num, q_den) ==
    LET sorted == SortAsc(values)
        n == Len(values)
        raw == (n + 1) * q_num - q_den
        h == IF raw < 0 THEN 0 ELSE IF raw > (n - 1) * q_den THEN (n - 1) * q_den ELSE raw
        lo == h \div q_den
        rem == h % q_den
        hi == IF rem = 0 THEN lo ELSE lo + 1
    IN RoundHalfEven((sorted[lo + 1] * q_den + (sorted[hi + 1] - sorted[lo + 1]) * rem)
                         * Decimals4, q_den)

\* Series.quantile(q_num / q_den) with linear interpolation, in ten-thousandths
Quantile(values, q_num, q_den) ==
    LET sorted == SortAsc(values)
        h == (Len(values) - 1) * q_num
        lo == h \div q_den
        rem == h % q_den
        hi == IF rem = 0 THEN lo ELSE lo + 1
    IN RoundHalfEven((sorted[lo + 1] * q_den + (sorted[hi + 1] - sorted[lo + 1]) * rem)
                         * Decimals4, q_den)

\* Series.mean() in ten-thousandths
Mean(values) == RoundHalfEven(SeqSum(values) * Decimals4, Len(values))

\* one digit of the long-hand square root of n / d: root p, remainder c (in
\* units of 1/d); the next digit is the largest x with x * (20 p + x) * d <= 100 c
SqrtDigit(p, c, d) ==
    SetMax({x \in 0..9 : x * (20 * p + x) * d <= 100 * c})

RECURSIVE SqrtDigits(_, _, _, _)
SqrtDigits(p, c, d, k) ==
    IF k = 0 THEN <<p, c>>
    ELSE LET x == SqrtDigit(p, c, d)
         IN SqrtDigits(10 * p + x, 100 * c - x * (20 * p + x) * d, d, k - 1)

\* sqrt(n / d) in ten-thousandths, rounded to nearest; n >= 0, d > 0
SqrtRounded4(n, d) ==
    LET p0 == ISqrt(n \div d)
        five == SqrtDigits(p0, n - p0 * p0 * d, d, 5)
        root == five[1] \div 10
        last == five[1] % 10
    IN IF last > 5 \/ (last = 5 /\ five[2] > 0) THEN root + 1
       ELSE IF last = 5 /\ root % 2 = 1 THEN root + 1
       ELSE root

\* Series.std(): the sample standard deviation (ddof = 1), two values or more
Std(values) ==
    LET n == Len(values)
        sum == SeqSum(values)
        squares == SeqSum([i \in 1..n |-> values[i] * values[i]])
    IN SqrtRounded4(n * squares - sum * sum, n * (n - 1))

\* mutant: min and max are the smallest and the largest value
Stats_true_extremes(valid_values) ==
    [min |-> SetMin(Range(valid_values)) * Decimals4,
     max |-> SetMax(Range(valid_values)) * Decimals4,
     p10 |-> Quantile(valid_values, 1, 10),
     p50_median |-> Quantile(valid_values, 1, 2),
     p90 |-> Quantile(valid_values, 9, 10),
     mean |-> Mean(valid_values), std |-> Std(valid_values)]

\* lines 38-49: the stats record of one column
Stats(valid_values) ==
    LET p10 == Quantile(valid_values, 1, 10)
        p90 == Quantile(valid_values, 9, 10)
    IN [min |-> p10, max |-> p90, p10 |-> p10,
        p50_median |-> Quantile(valid_values, 1, 2),
        p90 |-> p90, mean |-> Mean(valid_values), std |-> Std(valid_values)]

min_valid_values == 2     \* if len(valid_values) < 2: continue

\* mutant: the loop stops at the first column with too few values
ProfiledColumns_stop_at_sparse(data) ==
    {feature_columns[i] : i \in
        {j \in DOMAIN feature_columns :
            \A k \in 1..j : /\ feature_columns[k] \in DataFrameColumns(data)
                            /\ Len(DropNa(data, feature_columns[k])) >= min_valid_values}}

\* lines 28-36: the columns that pass both "continue" tests
ProfiledColumns(data) ==
    {col_name \in Range(feature_columns) :
        /\ col_name \in DataFrameColumns(data)
        /\ Len(DropNa(data, col_name)) >= min_valid_values}

\* lines 9-52
create_pitch_profile(data) ==
    IF data = <<>> THEN EmptyDict
    ELSE [col_name \in ProfiledColumns(data) |-> Stats(DropNa(data, col_name))]

---------------------------------------------------------------------------
(* State machine of create_pitch_profile: the list of historical records   *)
(* grows record by record, then the function runs on it                    *)

MaxRecords == 3     \* longest list of records that is tried

\* a record of the kinematics table: an unrecognised column, release_frame
\* missing, null or a number, trunk_rotation_at_br null or a number
RecordInputs ==
    {("id" :> Some(1)) @@ a @@ b :
        a \in {<<>>} \cup {("release_frame" :> v) : v \in {None, Some(-2), Some(1), Some(4)}},
        b \in {("trunk_rotation_at_br" :> v) : v \in {None, Some(3)}}}

ProfileAppendRecord ==
    /\ pf_ret = Pending
    /\ Len(features_data) < MaxRecords
    /\ \E record \in RecordInputs : features_data' = Append(features_data, record)
    /\ UNCHANGED pf_ret
    /\ UNCHANGED <<landVars, kinVars, scoreVars, svcVars, ballVars, angleVars, shVars, ingVars>>

CreatePitchProfile ==
    /\ pf_ret = Pending
    /\ pf_ret' = Returned(create_pitch_profile(features_data))
    /\ UNCHANGED features_data
    /\ UNCHANGED <<landVars, kinVars, scoreVars, svcVars, ballVars, angleVars, shVars, ingVars>>

InitProfile ==
    LandIdle /\ KinIdle /\ ScoreIdle /\ ServiceIdle /\ BallIdle /\ ProfileIdle
    /\ AngleIdle
    /\ ShoulderIdle /\ IngestIdle
NextProfile == ProfileAppendRecord \/ CreatePitchProfile
SpecProfile == InitProfile /\ [][NextProfile]_vars

---------------------------------------------------------------------------
(* State machine of a profile built from the historical values of one       *)
(* feature and then used by calculate_score_from_comparison                *)

HistoricalValues == <<10, 12, 14, 16, 18, 20, 22, 24, 26, 28>>
SubjectValues == {19, 10, 28, 45}

\* the values of trunk_rotation_at_br already in the list
HistoryTaken == {Val(features_data[i]["trunk_rotation_at_br"]) : i \in DOMAIN features_data}

\* the next record holds the smallest or the greatest value not yet taken
HistoryAppendRecord ==
    /\ pf_ret = Pending
    /\ \E v \in Range(HistoricalValues) \ HistoryTaken :
          /\ \/ \A w \in Range(HistoricalValues) \ HistoryTaken : v <= w
             \/ \A w \in Range(HistoricalValues) \ HistoryTaken : v >= w
          /\ features_data' =
                Append(features_data, ("id" :> Some(1)) @@ ("trunk_rotation_at_br" :> Some(v)))
    /\ UNCHANGED pf_ret
    /\ UNCHANGED <<landVars, kinVars, scoreVars, svcVars, ballVars, angleVars, shVars, ingVars>>

\* the profile as the scorer reads it back: every statistic is a present number
StoredProfile(profile) ==
    [col_name \in DOMAIN profile |->
        [k \in DOMAIN profile[col_name] |-> Some(profile[col_name][k])]]

\* calculate_score_from_comparison is called with one subject value, in the
\* unit of the statistics, and the profile that was built
ScoreAgainstProfile ==
    /\ pf_ret # Pending
    /\ sc_pc = "idle"
    /\ \E v \in SubjectValues :
          features' = ("Trunk_rotation_at_BR" :> Some(v * Decimals4))
    /\ profile_data' = StoredProfile(pf_ret.value)
    /\ sc_pc' = "call"
    /\ UNCHANGED <<sc_todo, total_score, feature_count, feature_score, sc_ret>>
    /\ UNCHANGED <<landVars, kinVars, svcVars, ballVars, profVars, angleVars, shVars, ingVars>>

InitHistory ==
    LandIdle /\ KinIdle /\ ScoreIdle /\ ServiceIdle /\ BallIdle /\ ProfileIdle
    /\ AngleIdle
    /\ ShoulderIdle /\ IngestIdle
NextHistory ==
    \/ HistoryAppendRecord \/ CreatePitchProfile \/ ScoreAgainstProfile
    \/ ScoreEnter \/ ScoreIterate \/ ScoreReturn
SpecHistory == InitHistory /\ [][NextHistory]_vars

---------------------------------------------------------------------------
(* State machine of calculate_pixel_angle: one call on three pixel points,  *)
(* then the call with the two ray endpoints swapped                        *)

MaxCoord == 2     \* pixel coordinates of the points are 0..MaxCoord

PointInputs == (0..MaxCoord) \X (0..MaxCoord)

CalculatePixelAngle ==
    /\ ang_ret = Pending
    /\ \E a \in PointInputs, b \in PointInputs, c \in PointInputs :
          /\ ang_args' = Some(<<a, b, c>>)
          /\ ang_divisors' = pixel_angle_divisors(a, b, c)
          /\ ang_ret' = Returned(calculate_pixel_angle(a, b, c))
    /\ UNCHANGED ang_swapped
    /\ UNCHANGED <<landVars, kinVars, scoreVars, svcVars, ballVars, profVars, shVars, ingVars>>

CalculatePixelAngleSwapped ==
    /\ ang_ret # Pending
    /\ ang_swapped = Pending
    /\ LET a == Val(ang_args)[1]
           b == Val(ang_args)[2]
           c == Val(ang_args)[3]
       IN ang_swapped' = Returned(calculate_pixel_angle(c, b, a))
    /\ UNCHANGED <<ang_args, ang_divisors, ang_ret>>
    /\ UNCHANGED <<landVars, kinVars, scoreVars, svcVars, ballVars, profVars, shVars, ingVars>>

InitAngle ==
    LandIdle /\ KinIdle /\ ScoreIdle /\ ServiceIdle /\ BallIdle /\ ProfileIdle
    /\ AngleIdle
    /\ ShoulderIdle /\ IngestIdle
NextAngle == CalculatePixelAngle \/ CalculatePixelAngleSwapped
SpecAngle == InitAngle /\ [][NextAngle]_vars

---------------------------------------------------------------------------
(* State machine of the pipeline on short sequences of release-like frames *)

MaxReleaseFrames == 3     \* longest sequence of release-like frames

\* straight arm of pixel length 3 * sqrt(2), elbow detected with confidence 0.1
ReleaseLowElbowConfPose ==
    Keypoints(<<4, 3, 10>>, <<1, 3, 10>>, <<2, 2, 1>>, <<4, 0, 10>>,
              <<4, 6, 10>>, <<2, 6, 10>>)
\* straight arm of pixel length 2 * sqrt(5), all confidences 1.0
ReleaseLongPose ==
    Keypoints(<<4, 2, 10>>, <<0, 2, 10>>, <<2, 1, 10>>, <<4, 0, 10>>,
              <<4, 6, 10>>, <<2, 6, 10>>)

ReleasePredictions ==
    {Prediction(SetPose), Prediction(ReleasePose), Prediction(ReleaseBentPose),
     Prediction(ReleaseDegeneratePose), Prediction(ReleaseLowElbowConfPose),
     Prediction(ReleaseLongPose)}

ReleaseApiFrame ==
    /\ kin_ret = Pending
    /\ Len(result_json) < MaxReleaseFrames
    /\ \E p \in ReleasePredictions :
          result_json' = Append(result_json,
                                [frame_idx |-> Len(result_json), predictions |-> p])
    /\ UNCHANGED <<kin_ret, landVars, scoreVars, svcVars, ballVars, profVars, angleVars,
                   shVars, ingVars>>

InitRelease ==
    LandIdle /\ KinIdle /\ ScoreIdle /\ ServiceIdle /\ BallIdle /\ ProfileIdle
    /\ AngleIdle
    /\ ShoulderIdle /\ IngestIdle
NextRelease == ReleaseApiFrame \/ ExtractPitchingBiomechanics
SpecRelease == InitRelease /\ [][NextRelease]_vars

---------------------------------------------------------------------------
(* State machine of detect_shoulder_frame, one loop iteration per step *)

MaxShoulderFrames == 4    \* longest pose sequence handed to the detector

\* arm cocked, shoulders one pixel apart, opening angle 90
CockNarrowPose == Keypoints(<<3, 2, 9>>, <<2, 2, 9>>, <<1, 2, 9>>, <<1, 0, 8>>,
                            <<2, 5, 9>>, <<2, 6, 9>>)
\* arm cocked, shoulders four pixels apart, opening angle 18
CockWidePose == Keypoints(<<6, 2, 9>>, <<2, 2, 9>>, <<1, 2, 9>>, <<1, 0, 8>>,
                          <<5, 3, 9>>, <<2, 6, 9>>)

\* SetPose: wrist below the shoulder; ReleasePose: wrist above the shoulder
\* and in front of it
ShoulderPoses ==
    {SetPose, ReleasePose, CockPose, CockFlatPose, CockLowConfPose, CockNarrowPose,
     CockWidePose}

\* the caller's pose sequence grows by one frame
ShoulderAppendFrame ==
    /\ sh_release = None
    /\ Len(sh_seq) < MaxShoulderFrames
    /\ \E pose \in ShoulderPoses :
          sh_seq' = Append(sh_seq, [frame |-> Len(sh_seq), keypoints |-> pose])
    /\ UNCHANGED <<sh_release, sh_i, start_found, candidate_list, sh_ret>>
    /\ UNCHANGED <<landVars, kinVars, scoreVars, svcVars, ballVars, profVars, angleVars, ingVars>>

\* detect_shoulder_frame(pose_sequence, release_frame) is called
ShoulderEnter ==
    /\ sh_release = None
    /\ \E release_frame \in 0..MaxShoulderFrames : sh_release' = Some(release_frame)
    /\ sh_i' = 1 /\ start_found' = FALSE /\ candidate_list' = <<>>
    /\ UNCHANGED <<sh_seq, sh_ret>>
    /\ UNCHANGED <<landVars, kinVars, scoreVars, svcVars, ballVars, profVars, angleVars, ingVars>>

\* one iteration of the for loop; the break leaves the loop
ShoulderIterate ==
    /\ sh_release # None /\ sh_ret = Pending
    /\ sh_i <= Len(sh_seq)
    /\ IF sh_seq[sh_i].frame > Val(sh_release)
       THEN /\ sh_i' = Len(sh_seq) + 1
            /\ UNCHANGED <<start_found, candidate_list>>
       ELSE LET after == ShoulderVisit(sh_seq[sh_i], start_found, candidate_list)
            IN /\ sh_i' = sh_i + 1
               /\ start_found' = after.start_found
               /\ candidate_list' = after.candidate_list
    /\ UNCHANGED <<sh_seq, sh_release, sh_ret>>
    /\ UNCHANGED <<landVars, kinVars, scoreVars, svcVars, ballVars, profVars, angleVars, ingVars>>

\* the statements after the loop
ShoulderReturn ==
    /\ sh_release # None /\ sh_ret = Pending
    /\ sh_i > Len(sh_seq)
    /\ sh_ret' = ShoulderResult(candidate_list)
    /\ UNCHANGED <<sh_seq, sh_release, sh_i, start_found, candidate_list>>
    /\ UNCHANGED <<landVars, kinVars, scoreVars, svcVars, ballVars, profVars, angleVars, ingVars>>

InitShoulder ==
    LandIdle /\ KinIdle /\ ScoreIdle /\ ServiceIdle /\ BallIdle /\ ProfileIdle
    /\ AngleIdle /\ ShoulderIdle /\ IngestIdle
NextShoulder == ShoulderAppendFrame \/ ShoulderEnter \/ ShoulderIterate \/ ShoulderReturn
SpecShoulder == InitShoulder /\ [][NextShoulder]_vars

---------------------------------------------------------------------------
(* Claims about the event detectors and the feature record *)

kin_pose_sequence == load_pose_from_response(result_json)

ReleasePredicate(keypoints) ==
    /\ keypoints[10][2] < keypoints[6][2]      \* right wrist y < right shoulder y
    /\ keypoints[8][1] < keypoints[10][1]      \* right elbow x < right wrist x

NoReleaseCandidate ==
    \A i \in 1..Len(kin_pose_sequence) : ~ReleasePredicate(kin_pose_sequence[i].keypoints)

ReleaseDependentFeatures ==
    {"Trunk_rotation_at_BR", "Shoulder_abduction_at_BR", "Trunk_flexion_at_BR"}

PositionsOf(r) == {p \in 0..(Len(lf_seq) - 1) : lf_seq[p + 1].frame = r}

\* C2: detect_landing_frame(seq, r) with the default offset returns the frame
\* number stored at position p-9, p being the position of frame number r in
\* seq, when r occurs and p >= 9, and None when r does not occur or p < 9.
C2_LandingByPosition ==
    lf_ret # Pending =>
        LET r == Val(lf_release)
        IN /\ lf_ret.status = "returned"
           /\ \A p \in PositionsOf(r) :
                 IF p >= 9 THEN lf_ret.value = Some(lf_seq[(p - 9) + 1].frame)
                 ELSE lf_ret.value = None
           /\ PositionsOf(r) = {} => lf_ret.value = None

\* a sequence with dropped frames whose landing frame is not r - 9
C2_Witness ==
    /\ lf_ret.status = "returned"
    /\ lf_ret.value # None
    /\ Val(lf_ret.value) # Val(lf_release) - 9

\* C3: for every well-shaped input the pipeline returns a record; it never
\* raises, also when two keypoints of an angle coincide.
C3_NeverRaises == kin_ret.status # "raised"

RecordKeys ==
    {"release_frame", "landing_frame", "shoulder_frame", "total_frames",
     "Trunk_flexion_excursion", "Pelvis_obliquity_at_FC", "Trunk_rotation_at_BR",
     "Shoulder_abduction_at_BR", "Trunk_flexion_at_BR", "Trunk_lateral_flexion_at_HS"}

\* C4: for every non-empty pose sequence the returned record has all 10 keys,
\* and Trunk_flexion_excursion and Trunk_lateral_flexion_at_HS are non-null
\* whether or not the release and landing frames were found.
C4_AllKeysPresent ==
    (kin_ret # Pending /\ kin_pose_sequence # <<>>) =>
        /\ kin_ret.status = "returned"
        /\ DOMAIN kin_ret.value = RecordKeys
        /\ Get(kin_ret.value, "Trunk_flexion_excursion") # None
        /\ Get(kin_ret.value, "Trunk_lateral_flexion_at_HS") # None

---------------------------------------------------------------------------
(* Claims about the comparison scorer *)

\* the features that take part in the score: non-null in the subject record,
\* with a profile entry whose mean is non-null and whose std is non-null and not 0
Comparable ==
    {k \in DOMAIN features :
        /\ features[k] # None
        /\ Lower(k) \in DOMAIN profile_data
        /\ LET st == profile_data[Lower(k)]
           IN st # <<>> /\ st.mean # None /\ st.std # None /\ Val(st.std) # 0}

ScoreOf(k) ==
    FeatureScore(Val(features[k]), Val(profile_data[Lower(k)].mean),
                 Val(profile_data[Lower(k)].std))

RECURSIVE SumScores(_)
SumScores(S) ==
    IF S = {} THEN <<0, 1>>
    ELSE LET k == CHOOSE x \in S : TRUE IN FracAdd(ScoreOf(k), SumScores(S \ {k}))

Max0(x) == IF x < 0 THEN 0 ELSE x

\* C5: whenever the loop scores a feature, feature_score is
\* max(0, 100 - 25*z) with z = |(value - mean)/std|: 100 when the value equals
\* the mean, 0 at a deviation of exactly 4 std, 0 and never negative beyond it.
C5_PerFeatureScore ==
    [][(sc_pc = "loop" /\ feature_count' = feature_count + 1) =>
         LET key == Head(sc_todo)
             v == Val(features[key])
             m == Val(profile_data[Lower(key)].mean)
             sd == Abs(Val(profile_data[Lower(key)].std))
             x == Val(feature_score')
         IN /\ x[2] > 0
            /\ x[1] * sd = x[2] * Max0(100 * sd - 25 * Abs(v - m))
            /\ v = m => x = <<100, 1>>
            /\ Abs(v - m) = 4 * sd => x = <<0, 1>>
            /\ Abs(v - m) > 4 * sd => x = <<0, 1>>]_vars

\* a feature exactly 4 std away from the mean has been scored 0
C5_Witness ==
    /\ sc_pc = "done"
    /\ DOMAIN features = {"release_frame"}
    /\ features["release_frame"] = Some(4)
    /\ Get(profile_data, "release_frame") = [mean |-> Some(0), std |-> Some(1)]
    /\ feature_score = Some(<<0, 1>>)

\* C6: the returned value is the integer truncation of the unweighted mean of
\* the per-feature scores over exactly the comparable features; the other
\* features change neither total_score nor feature_count.
C6_TruncatedMeanOfComparable ==
    sc_pc = "done" =>
        /\ sc_ret.status = "returned"
        /\ Comparable # {} =>
              /\ feature_count = Cardinality(Comparable)
              /\ total_score = SumScores(Comparable)
              /\ sc_ret.value = FracDivTrunc(SumScores(Comparable),
                                             Cardinality(Comparable))
        /\ profile_data # <<>> => feature_count = Cardinality(Comparable)

\* two features, one of them skipped, and a mean that is truncated
C6_Witness ==
    /\ sc_pc = "done"
    /\ Cardinality(DOMAIN features) = 2
    /\ Cardinality(Comparable) = 1
    /\ total_score[2] # 1
    /\ sc_ret.value > 0

comparison_target == 
    IF svc_req.benchmark_player_name \in {None, Some("")}
    THEN svc_req.player_name
    ELSE Val(svc_req.benchmark_player_name)

NoProfileExists ==
    ~\E row \in db_models :
        \/ row.model_name = <<comparison_target, ball_task.value, "v1">>
        \/ row.model_name = <<comparison_target, "all", "v1">>

\* C7: with zero comparable features calculate_score_from_comparison returns
\* 0 without raising, and analyze_pitch_service reports pitch_score 0 when
\* neither the pitch-type profile nor the fallback profile exists.
C7_ZeroComparableScoresZero ==
    /\ (sc_pc = "done" /\ Comparable = {}) => sc_ret = Returned(0)
    /\ (svc_ret.status = "returned" /\ NoProfileExists) =>
           svc_ret.value.pitch_score = 0

\* an overlapping non-null feature whose profile std is zero
C7_Witness ==
    /\ sc_pc = "done"
    /\ sc_ret = Returned(0)
    /\ \E k \in DOMAIN features :
          /\ features[k] # None
          /\ Get(profile_data, Lower(k)) # <<>>
          /\ Get(profile_data, Lower(k)).mean # None
          /\ Get(profile_data, Lower(k)).std = Some(0)

\* further cases of C7 that are reached: the service without any profile, the
\* empty profile, a profile without overlap with the record
C7_ServiceWithoutProfile ==
    svc_ret.status = "returned" /\ NoProfileExists /\ pose_task.value # EmptyDict
C7_EmptyProfile == sc_pc = "done" /\ profile_data = <<>> /\ features # EmptyDict
C7_NoOverlap ==
    /\ sc_pc = "done" /\ profile_data # <<>>
    /\ \A k \in DOMAIN features : features[k] # None /\ Lower(k) \notin DOMAIN profile_data
    /\ features # EmptyDict

\* C8: the returned score is an integer in 0..100 for every record and profile.
C8_ScoreInRange ==
    sc_pc = "done" => sc_ret.status = "returned" /\ sc_ret.value \in 0..100

\* a negative std and a value more than 4 std away took part in the score
C8_Witness ==
    /\ sc_pc = "done"
    /\ \E k \in Comparable :
          /\ Val(profile_data[Lower(k)].std) < 0
          /\ Abs(Val(features[k]) - Val(profile_data[Lower(k)].mean)) > 4
    /\ \E k \in Comparable : ScoreOf(k) = <<100, 1>>

---------------------------------------------------------------------------
(* Claims about the ball-quality vectorizer *)

ball_n == Len(ball_results)
ball_values == Val(ball_df).values
ball_columns == Val(ball_df).columns

\* C9: for results of any length n the frame has exactly 239 x values and 239
\* y values under the columns x_0..x_238, y_0..y_238; position i < min(n, 239)
\* holds in x_i and in y_i the entry derived from input entry i, positions
\* n..238 are null, and input entries from 239 on are discarded.
C9_Exactly239InOrder ==
    ball_df # None =>
        /\ Len(x_list) = 239 /\ Len(y_list) = 239
        /\ Len(ball_values) = 478 /\ Len(ball_columns) = 478
        /\ \A i \in 0..238 :
              /\ ball_columns[i + 1] = <<"x", i>>
              /\ ball_columns[239 + i + 1] = <<"y", i>>
              /\ ball_values[i + 1] = x_list[i + 1]
              /\ ball_values[239 + i + 1] = y_list[i + 1]
              /\ IF i < ball_n
                 THEN <<x_list[i + 1], y_list[i + 1]>> = BoxCenter(ball_results[i + 1])
                 ELSE x_list[i + 1] = None /\ y_list[i + 1] = None

\* more than 239 entries, the discarded ones and the last kept one are boxes
C9_Witness ==
    /\ ball_df # None
    /\ ball_n = 241
    /\ \A i \in 239..241 : BoxCenter(ball_results[i])[1] # None
    /\ x_list[239] = Some(<<477, 2>>)

\* fewer than 239 entries: a box followed by a missing box, then padding
C9_WitnessShort ==
    /\ ball_df # None
    /\ ball_n = 2
    /\ x_list[1] # None /\ x_list[2] = None /\ x_list[3] = None

---------------------------------------------------------------------------
(* Claims about the profile builder *)

\* number of records whose value for the column is present and not null
NonNullCount(col_name) ==
    Cardinality({i \in DOMAIN features_data :
                    /\ col_name \in DOMAIN features_data[i]
                    /\ features_data[i][col_name] # None})

StatsKeys == {"min", "max", "p10", "p50_median", "p90", "mean", "std"}

\* C10: create_pitch_profile returns (never raises); for an empty collection
\* the profile is the empty mapping; otherwise a recognized feature with fewer
\* than 2 non-null values is omitted and every recognized feature with at
\* least 2 non-null values has a stats record.
C10_SparseFeatureOmitted ==
    pf_ret # Pending =>
        /\ pf_ret.status = "returned"
        /\ features_data = <<>> => pf_ret.value = EmptyDict
        /\ DOMAIN pf_ret.value \subseteq Range(feature_columns)
        /\ \A col_name \in Range(feature_columns) :
              IF NonNullCount(col_name) < 2
              THEN col_name \notin DOMAIN pf_ret.value
              ELSE /\ col_name \in DOMAIN pf_ret.value
                   /\ DOMAIN pf_ret.value[col_name] = StatsKeys

\* trunk_rotation_at_br has one value and is omitted, release_frame, later in
\* the column order, has two and is profiled
C10_Witness ==
    /\ pf_ret # Pending
    /\ NonNullCount("trunk_rotation_at_br") = 1
    /\ NonNullCount("release_frame") = 2
    /\ DOMAIN pf_ret.value = {"release_frame"}

\* the empty collection gives the empty mapping
C10_WitnessEmpty == pf_ret = Returned(EmptyDict) /\ features_data = <<>>

---------------------------------------------------------------------------
(* Claims about the example profile *)

\* the profile of the ten historical values, in any order of the records
ExampleProfiled ==
    /\ pf_ret # Pending
    /\ Len(features_data) = Len(HistoricalValues)
    /\ HistoryTaken = Range(HistoricalValues)

ExampleStats == pf_ret.value["trunk_rotation_at_br"]

ExampleScored ==
    ExampleProfiled /\ sc_pc = "done" /\ features["Trunk_rotation_at_BR"] = Some(190000)

\* C11 as stated: the ten values give p10 = 12.2, p90 = 25.8, median = 19.0,
\* mean = 19.0, the sample standard deviation, and 19.0 scores exactly 100.
C11_ExampleAsStated ==
    /\ ExampleProfiled =>
          /\ ExampleStats.p10 = 122000 /\ ExampleStats.p90 = 258000
          /\ ExampleStats.p50_median = 190000 /\ ExampleStats.mean = 190000
          /\ ExampleStats.std = 60553
    /\ ExampleScored => feature_score = Some(<<100, 1>>) /\ sc_ret = Returned(100)

\* C11 amended: the ten values give p10 = 11.8, p90 = 26.2 (linear
\* interpolation at position q * (n - 1)), median = 19.0, mean = 19.0,
\* std = 6.0553 (the sample formula), and 19.0 scores exactly 100.
C11_ExampleProfile ==
    /\ ExampleProfiled =>
          /\ ExampleStats.p10 = 118000 /\ ExampleStats.p90 = 262000
          /\ ExampleStats.p50_median = 190000 /\ ExampleStats.mean = 190000
          /\ ExampleStats.std = 60553
    /\ ExampleScored => feature_score = Some(<<100, 1>>) /\ sc_ret = Returned(100)

\* the ten values, not in ascending order, have been profiled and 19.0 scored
C11_Witness ==
    /\ ExampleScored
    /\ Val(features_data[1]["trunk_rotation_at_br"]) = 28
    /\ sc_ret = Returned(100)

---------------------------------------------------------------------------
(* Claims about the landing frame inside the pipeline *)

\* detect_release_frame returned a frame for the loaded sequence
ReleaseFound ==
    /\ kin_ret # Pending
    /\ kin_pose_sequence # <<>>
    /\ ~detect_release_frame_raises(kin_pose_sequence)
    /\ detect_release_frame(kin_pose_sequence) # None

found_release == Val(detect_release_frame(kin_pose_sequence))

\* 0-based position of the release frame in the loaded sequence
release_position ==
    (CHOOSE i \in DOMAIN kin_pose_sequence :
        kin_pose_sequence[i].frame = found_release) - 1

HipDifference(keypoints) ==
    keypoints[COCO_KEYPOINTS.left_hip][2] - keypoints[COCO_KEYPOINTS.right_hip][2]

\* what C12 says about a returned record
PelvisAsClaimed(record) ==
    /\ record # EmptyDict
    /\ record["release_frame"] = Some(found_release)
    /\ IF release_position >= 9
       THEN LET landing == kin_pose_sequence[release_position - 9 + 1]
            IN /\ record["landing_frame"] = Some(landing.frame)
               /\ record["Pelvis_obliquity_at_FC"] = Some(HipDifference(landing.keypoints))
       ELSE /\ record["landing_frame"] = None
            /\ record["Pelvis_obliquity_at_FC"] = None
            /\ record["Trunk_rotation_at_BR"] # None
            /\ record["Shoulder_abduction_at_BR"] # None
            /\ record["Trunk_flexion_at_BR"] # None

\* C12: whenever the release frame is found at position p, the output has
\* Pelvis_obliquity_at_FC = left-hip y - right-hip y of the frame at position
\* p - 9 when p >= 9; when p < 9 landing_frame and Pelvis_obliquity_at_FC are
\* null and release_frame and the three release-dependent features are not.
C12_PelvisAtLandingPosition ==
    ReleaseFound => kin_ret.status = "returned" /\ PelvisAsClaimed(kin_ret.value)

\* the part of C12 that the code keeps: the records that are returned
C12_ReturnedRecords ==
    (ReleaseFound /\ kin_ret.status = "returned") => PelvisAsClaimed(kin_ret.value)

\* returned records of both kinds are reached: a landing frame found by
\* position after a dropped frame, and a release too early for a landing frame
C12_ReachedLanding ==
    /\ ReleaseFound /\ kin_ret.status = "returned"
    /\ release_position = 9 /\ found_release = 10
    /\ kin_ret.value["landing_frame"] = Some(0)
C12_ReachedEarly ==
    /\ ReleaseFound /\ kin_ret.status = "returned"
    /\ release_position = 2
    /\ kin_ret.value["Pelvis_obliquity_at_FC"] = None

---------------------------------------------------------------------------
(* Claims about the selection of the comparison profile *)

SpecificName == <<comparison_target, ball_task.value, "v1">>
FallbackName == <<comparison_target, "all", "v1">>
HasRow(name) == \E row \in db_models : row.model_name = name
RowNamed(name) == CHOOSE row \in db_models : row.model_name = name
TypeDetected == ball_task.value # "" /\ ball_task.value # "Unknown"

\* C13: with a detected pitch type the key <pitcher>_<type>_v1 is queried
\* first and its profile, if any, is returned without a query of the fallback;
\* otherwise <pitcher>_all_v1 is queried and its result returned (absent when
\* it does not exist); with an unknown type the pitch-type key is not queried.
C13_LookupOrder ==
    db_queries # <<>> =>
        IF TypeDetected /\ HasRow(SpecificName)
        THEN /\ db_queries = <<SpecificName>>
             /\ profile_model = Some(RowNamed(SpecificName))
        ELSE /\ db_queries = IF TypeDetected THEN <<SpecificName, FallbackName>>
                             ELSE <<FallbackName>>
             /\ profile_model = IF HasRow(FallbackName) THEN Some(RowNamed(FallbackName))
                                ELSE None

\* both profiles exist and the type is detected: the specific one is returned
C13_Witness ==
    /\ db_queries # <<>>
    /\ db_queries = <<SpecificName>>
    /\ TypeDetected /\ HasRow(SpecificName) /\ HasRow(FallbackName)
    /\ Val(profile_model).model_name = SpecificName

\* further cases that are reached: fallback after a miss, unknown type with
\* an existing pitch-type row of the pitcher, nothing found
C13_ReachedFallback ==
    /\ db_queries # <<>>
    /\ db_queries = <<SpecificName, FallbackName>> /\ profile_model # None
C13_ReachedUnknown ==
    /\ db_queries # <<>>
    /\ db_queries = <<FallbackName>> /\ ball_task.value = "Unknown"
    /\ HasRow(<<comparison_target, "FF", "v1">>) /\ profile_model # None
C13_ReachedNone ==
    /\ db_queries # <<>>
    /\ db_queries = <<SpecificName, FallbackName>> /\ profile_model = None

---------------------------------------------------------------------------
(* Claims about the vertex angle *)

ang_a == Val(ang_args)[1]
ang_b == Val(ang_args)[2]
ang_c == Val(ang_args)[3]
RayDegenerate == ang_b = ang_a \/ ang_b = ang_c

\* C14: angle(a, b, c) = angle(c, b, a), and when neither ray has zero
\* length the result is a number of degrees in [0, 180].
C14_SymmetricWithin0To180 ==
    /\ ang_swapped # Pending => ang_swapped.value = ang_ret.value
    /\ (ang_ret # Pending /\ ~RayDegenerate) =>
           /\ ang_ret.value # None
           /\ Val(ang_ret.value) >= 0 /\ Val(ang_ret.value) <= 180

\* a clockwise right angle at b = (1,1) and its swapped call, both 90 degrees
C14_Witness ==
    /\ ang_swapped # Pending
    /\ ang_args = Some(<<<<1, 0>>, <<1, 1>>, <<2, 1>>>>)
    /\ ang_ret.value = Some(90) /\ ang_swapped.value = Some(90)

\* the ends of the range are reached: a straight line and two equal rays
C14_Reached180 == ang_ret # Pending /\ ang_ret.value = Some(180)
C14_Reached0 == ang_ret # Pending /\ ang_ret.value = Some(0) /\ ang_a # ang_c

\* C20: the result is None exactly when b coincides with a or with c, no
\* division is performed in that case (and no division by zero in any case);
\* for every other input the result is a number.
C20_UndefinedIffZeroRay ==
    ang_ret # Pending =>
        /\ ang_ret.value = None <=> RayDegenerate
        /\ RayDegenerate => ang_divisors = <<>>
        /\ \A i \in DOMAIN ang_divisors : ang_divisors[i] # 0

\* the second ray has zero length, the first has not: None without a division
C20_Witness ==
    /\ ang_ret # Pending
    /\ ang_b = ang_c /\ ang_b # ang_a
    /\ ang_ret.value = None /\ ang_divisors = <<>>

\* a call that divides is reached as well
C20_ReachedDivision == ang_ret # Pending /\ Len(ang_divisors) = 1

---------------------------------------------------------------------------
(* Claims about the fields of a stats record *)

\* the non-null values of a column, in record order
ColumnValues(col_name) == DropNa(features_data, col_name)

\* C15: every stats record has exactly the fields min, max, p10, p50_median,
\* p90, mean, std; min equals p10 and max equals p90, the 10th and the 90th
\* percentile of the column's values.
C15_MinMaxArePercentiles ==
    pf_ret # Pending =>
        \A col_name \in DOMAIN pf_ret.value :
            LET stats == pf_ret.value[col_name]
            IN /\ DOMAIN stats = {"min", "max", "p10", "p50_median", "p90", "mean", "std"}
               /\ stats.min = stats.p10 /\ stats.max = stats.p90
               /\ stats.p10 = Quantile(ColumnValues(col_name), 1, 10)
               /\ stats.p90 = Quantile(ColumnValues(col_name), 9, 10)

\* release_frame values -2, 1, 4: min is -1.4 and max is 3.4, not -2 and 4
C15_Witness ==
    /\ pf_ret # Pending
    /\ "release_frame" \in DOMAIN pf_ret.value
    /\ Range(ColumnValues("release_frame")) = {-2, 1, 4}
    /\ pf_ret.value["release_frame"].min = -14000
    /\ pf_ret.value["release_frame"].max = 34000

---------------------------------------------------------------------------
(* Claims about the release detector *)

ReleaseCandidates ==
    {i \in DOMAIN kin_pose_sequence : ReleasePredicate(kin_pose_sequence[i].keypoints)}

\* elbow angle of frame i: wrist - elbow - shoulder, None for a zero-length ray
ElbowAngle(i) ==
    LET k == kin_pose_sequence[i].keypoints
    IN calculate_pixel_angle(XY(k[10]), XY(k[8]), XY(k[6]))

\* pixel distance of two keypoints, in thousandths of a pixel
PixelDistance(p, q) ==
    ISqrt(1000000 * ((p[1] - q[1]) * (p[1] - q[1]) + (p[2] - q[2]) * (p[2] - q[2])))

\* arm length of frame i: wrist-elbow plus elbow-shoulder distance
ArmLength(i) ==
    LET k == kin_pose_sequence[i].keypoints
    IN PixelDistance(k[10], k[8]) + PixelDistance(k[8], k[6])

MaxElbowAngle == SetMax({Val(ElbowAngle(i)) : i \in ReleaseCandidates})

WithinTolerance(i) == MaxElbowAngle - Val(ElbowAngle(i)) < 5

\* the candidate position whose frame number detect_release_frame returned
ReleaseWinners ==
    {i \in ReleaseCandidates :
        Some(kin_pose_sequence[i].frame) = detect_release_frame(kin_pose_sequence)}

\* what C16 says of the returned frame, for candidates that all have an angle
ReleaseSelectionRule ==
    /\ detect_release_frame(kin_pose_sequence) # None
    /\ \E w \in ReleaseWinners :
          /\ WithinTolerance(w)
          /\ \A x \in ReleaseCandidates : WithinTolerance(x) => ArmLength(w) >= ArmLength(x)

\* C16: when at least one frame satisfies the release predicate,
\* detect_release_frame returns the frame number of a candidate whose elbow
\* angle is within 5 degrees of the maximum over the candidates and whose arm
\* length is at least that of every other candidate within 5 degrees.
C16_ReleaseSelection ==
    (kin_ret # Pending /\ ReleaseCandidates # {}) =>
        /\ ~detect_release_frame_raises(kin_pose_sequence)
        /\ ReleaseSelectionRule

\* the same for the sequences whose candidates all have an elbow angle
C16_SelectionWhenAnglesDefined ==
    (kin_ret # Pending /\ ReleaseCandidates # {}
        /\ \A i \in ReleaseCandidates : ElbowAngle(i) # None) => ReleaseSelectionRule

---------------------------------------------------------------------------
(* Claims about the shoulder detector *)

\* the loop is about to visit a frame that is not after the release frame
Visiting ==
    /\ sh_release # None /\ sh_ret = Pending
    /\ sh_i <= Len(sh_seq)
    /\ sh_seq[sh_i].frame <= Val(sh_release)

\* the loop is about to reach a frame after the release frame
PastRelease ==
    /\ sh_release # None /\ sh_ret = Pending
    /\ sh_i <= Len(sh_seq)
    /\ sh_seq[sh_i].frame > Val(sh_release)

WristAbove(keypoints) == keypoints[10][2] < keypoints[6][2]
WristInFront(keypoints) == keypoints[10][1] > keypoints[6][1]
\* confidence (in tenths) at least 0.3 on left shoulder, right shoulder,
\* left hip and right wrist
GateOpen(keypoints) == \A j \in {5, 6, 11, 10} : keypoints[j][3] >= 3

Armed == start_found
Waiting == ~start_found
BecomesCandidate == candidate_list' # candidate_list

\* C17 as stated: Waiting until the first scanned frame with the right wrist
\* above the right shoulder, whatever its confidence; Armed from there on;
\* only frames after the trigger frame become candidates, and only those
\* are gated by confidence.
C17_ArmingIgnoresConfidence ==
    [][Visiting =>
          /\ Armed => Armed'
          /\ Waiting => (Armed' <=> WristAbove(sh_seq[sh_i].keypoints))
          /\ BecomesCandidate => Armed /\ GateOpen(sh_seq[sh_i].keypoints)]_vars

\* C17 (amended): Waiting until the first scanned frame that has confidence
\* >= 0.3 on the four keypoints and the right wrist above the right shoulder;
\* Armed from there on, never Waiting again; the trigger frame and the
\* frames after it, up to release_frame, become candidates when they pass
\* the confidence gate with the wrist above the shoulder and not in front of
\* it; frames after release_frame change nothing.
C17_ArmingBehindConfidenceGate ==
    [][/\ Visiting =>
            LET k == sh_seq[sh_i].keypoints
            IN /\ Armed => Armed'
               /\ Waiting => (Armed' <=> GateOpen(k) /\ WristAbove(k))
               /\ BecomesCandidate <=>
                     Armed' /\ GateOpen(k) /\ WristAbove(k) /\ ~WristInFront(k)
               /\ BecomesCandidate =>
                     /\ Len(candidate_list') = Len(candidate_list) + 1
                     /\ candidate_list'[Len(candidate_list')][3] = sh_seq[sh_i].frame
       /\ PastRelease => UNCHANGED <<start_found, candidate_list>>]_vars

\* a low-confidence frame with the wrist up was passed while Waiting, the
\* next frame armed the detector and became a candidate itself, and the
\* wrist then dropped with the detector still Armed
C17_Witness ==
    /\ Len(sh_seq) >= 3 /\ sh_release # None /\ sh_i > 3
    /\ Val(sh_release) >= 2
    /\ sh_seq[1].keypoints = CockLowConfPose
    /\ sh_seq[2].keypoints = CockPose
    /\ sh_seq[3].keypoints = SetPose
    /\ Armed /\ Len(candidate_list) = 1 /\ candidate_list[1][3] = sh_seq[2].frame

\* the scanned items that pass every filter of the loop
Survives(item) ==
    /\ item.frame <= Val(sh_release)
    /\ GateOpen(item.keypoints)
    /\ WristAbove(item.keypoints) /\ ~WristInFront(item.keypoints)
Survivors == {i \in DOMAIN sh_seq : Survives(sh_seq[i])}

Separation(i) ==
    LET k == sh_seq[i].keypoints
    IN Abs(k[6][1] - k[5][1])
\* opening angle of item i: left shoulder - right shoulder - left hip
OpeningAngle(i) ==
    LET k == sh_seq[i].keypoints
    IN calculate_pixel_angle(XY(k[5]), XY(k[6]), XY(k[11]))

\* the (at most) 3 survivors of greatest separation, the earlier frame first
\* among equals
KeptBySeparation ==
    {i \in Survivors :
        Cardinality({j \in Survivors :
            \/ Separation(j) > Separation(i)
            \/ (Separation(j) = Separation(i) /\ j < i)}) < 3}

ReturnsFrameOf(i) == sh_ret = Returned(Some(sh_seq[i].frame))

\* the selection C18 describes, for a call that has returned a frame
SelectedByTop3 ==
    \E w \in KeptBySeparation :
        /\ ReturnsFrameOf(w)
        /\ \A x \in KeptBySeparation :
              (OpeningAngle(x) # None /\ OpeningAngle(w) # None)
                  => Val(OpeningAngle(w)) >= Val(OpeningAngle(x))

\* C18: when candidates survive, detect_shoulder_frame returns the frame of
\* one of the (at most) 3 survivors of greatest horizontal shoulder
\* separation, namely one of largest opening angle among those 3; a survivor
\* outside the top 3 is never returned.
C18_Top3ThenLargestAngle ==
    (sh_release # None /\ sh_ret # Pending /\ Survivors # {}) =>
        /\ sh_ret.status = "returned"
        /\ SelectedByTop3
        /\ \A i \in Survivors \ KeptBySeparation : ~ReturnsFrameOf(i)

\* the same for the calls that return
C18_SelectionWhenReturned ==
    (sh_release # None /\ sh_ret.status = "returned" /\ Survivors # {}) =>
        /\ SelectedByTop3
        /\ \A i \in Survivors \ KeptBySeparation : ~ReturnsFrameOf(i)

\* four survivors, the one of largest opening angle outside the top 3
C18_ReachedOutsideTop3 ==
    /\ sh_release # None /\ sh_ret.status = "returned"
    /\ \E i \in Survivors \ KeptBySeparation :
          /\ OpeningAngle(i) # None
          /\ \A x \in KeptBySeparation :
                OpeningAngle(x) # None /\ Val(OpeningAngle(i)) > Val(OpeningAngle(x))

\* C19: a frame detect_shoulder_frame returns is a frame of the sequence
\* with frame index <= release_frame, confidence >= 0.3 on left shoulder,
\* right shoulder, left hip and right wrist, the right wrist strictly above
\* the right shoulder and not in front of it; it returns not-found exactly
\* when the detector was never armed or no frame passes these filters.
C19_ReturnedFrameSurvives ==
    (sh_release # None /\ sh_ret # Pending) =>
        /\ (sh_ret.status = "returned" /\ sh_ret.value # None) =>
              \E i \in Survivors : sh_seq[i].frame = Val(sh_ret.value)
        /\ sh_ret = Returned(None) <=> (Waiting \/ Survivors = {})

\* a frame was returned from a sequence that also holds a low-confidence
\* frame with the wrist up and a frame with the wrist in front
C19_Witness ==
    /\ sh_release # None /\ sh_ret.status = "returned" /\ sh_ret.value # None
    /\ \E i, j \in DOMAIN sh_seq :
          /\ sh_seq[i].frame <= Val(sh_release) /\ sh_seq[j].frame <= Val(sh_release)
          /\ ~GateOpen(sh_seq[i].keypoints) /\ WristAbove(sh_seq[i].keypoints)
          /\ GateOpen(sh_seq[j].keypoints) /\ WristInFront(sh_seq[j].keypoints)

\* not-found although the detector was armed: nothing passed the filters
C19_ReachedArmedNotFound ==
    sh_release # None /\ sh_ret = Returned(None) /\ Armed /\ sh_seq # <<>>

\* not-found with a filter-passing frame after release_frame only
C19_ReachedPastRelease ==
    /\ sh_release # None /\ sh_ret = Returned(None)
    /\ \E i \in DOMAIN sh_seq :
          /\ sh_seq[i].frame > Val(sh_release)
          /\ GateOpen(sh_seq[i].keypoints)
          /\ WristAbove(sh_seq[i].keypoints) /\ ~WristInFront(sh_seq[i].keypoints)

---------------------------------------------------------------------------
(* Claims about the box centers of the ball-quality vectorizer *)

\* the box of entry i (from 0) of the results, None when absent
BoxOf(i) == ball_results[i + 1][2]
\* the box of entry i is present with exactly 4 coordinates, none of them null
BoxValid(i) ==
    /\ BoxOf(i) # None
    /\ Len(Val(BoxOf(i))) = 4
    /\ \A j \in 1..4 : Val(BoxOf(i))[j] # None
\* the fraction v equals (p + q) / 2
IsHalfSum(v, p, q) == v # None /\ 2 * Val(v)[1] = (p + q) * Val(v)[2]

\* C21: for each entry i of the results that the frame has room for, position
\* i of x_list and y_list holds the box center ((x1+x2)/2, (y1+y2)/2) when
\* the box is present with exactly 4 non-null coordinates, and (null, null)
\* otherwise; an invalid entry keeps its position.
C21_CenterOrNullInPlace ==
    ball_df # None =>
        \A i \in 0..(ball_n - 1) :
            i < Len(x_list) =>
                IF BoxValid(i)
                THEN LET c == Val(BoxOf(i))
                     IN /\ IsHalfSum(x_list[i + 1], Val(c[1]), Val(c[3]))
                        /\ IsHalfSum(y_list[i + 1], Val(c[2]), Val(c[4]))
                ELSE x_list[i + 1] = None /\ y_list[i + 1] = None

\* an absent box, a box of 3, a box of 5 and a box with a null coordinate,
\* each followed by a valid box whose center is found at its own position
C21_Witness ==
    /\ ball_df # None
    /\ ball_n >= 9
    /\ BoxOf(1) = None /\ BoxValid(2)
    /\ Len(Val(BoxOf(3))) = 3 /\ Len(Val(BoxOf(5))) = 5
    /\ ~BoxValid(6) /\ Len(Val(BoxOf(6))) = 4
    /\ BoxValid(7)
    /\ x_list[2] = None /\ x_list[3] = Some(<<5, 2>>) /\ y_list[3] = Some(<<11, 2>>)
    /\ x_list[4] = None /\ x_list[6] = None /\ x_list[7] = None
    /\ x_list[8] = Some(<<15, 2>>)

---------------------------------------------------------------------------
(* Claims about the loader *)

\* positions of the response frames with a non-empty predictions list
DetectedPositions == {i \in DOMAIN result_json : result_json[i].predictions # <<>>}
\* the position in the response of the k-th frame with predictions
DetectedAt(k) ==
    CHOOSE i \in DetectedPositions : Cardinality({j \in DetectedPositions : j <= i}) = k
\* a keypoint row with the confidence 1.0 (in tenths) it gets when missing
WithConfidence(row) == IF Len(row) = 2 THEN <<row[1], row[2], 10>> ELSE row

\* C22: load_pose_from_response keeps exactly the frames with a non-empty
\* predictions list, once each and in source order, under their source
\* frame_idx; keypoints given as (x, y) get confidence 1.0; total_frames of a
\* returned record is the number of frames with predictions.
C22_LoaderKeepsDetectedFrames ==
    /\ Len(kin_pose_sequence) = Cardinality(DetectedPositions)
    /\ \A k \in DOMAIN kin_pose_sequence :
          LET source == result_json[DetectedAt(k)]
              rows == source.predictions[1].keypoints
          IN /\ kin_pose_sequence[k].frame = source.frame_idx
             /\ DOMAIN kin_pose_sequence[k].keypoints = DOMAIN rows
             /\ \A j \in DOMAIN rows :
                   kin_pose_sequence[k].keypoints[j] = WithConfidence(rows[j])
    /\ (kin_ret.status = "returned" /\ kin_ret.value # EmptyDict) =>
          kin_ret.value["total_frames"] = Some(Cardinality(DetectedPositions))

\* a record was returned for a response with a frame without predictions
\* between kept frames and a kept frame given as (x, y) only
C22_Witness ==
    /\ kin_ret.status = "returned" /\ kin_ret.value # EmptyDict
    /\ \E i, j, k \in DOMAIN result_json :
          /\ i < j /\ j < k
          /\ result_json[i].predictions # <<>>
          /\ result_json[j].predictions = <<>>
          /\ result_json[k].predictions = Prediction(ReleaseBentPose)
    /\ kin_ret.value["total_frames"] = Some(Len(result_json) - 1)
    /\ kin_pose_sequence[Len(kin_pose_sequence)].frame = Len(result_json) - 1

---------------------------------------------------------------------------
(* Claims about the latch of the shoulder detector *)

\* the candidates of a filter without memory: every item passing the
\* filters, in sequence order, as <<angle, shoulder_distance, frame_idx>>
RECURSIVE StatelessCandidates(_)
StatelessCandidates(n) ==
    IF n = 0 THEN <<>>
    ELSE IF n \in Survivors
    THEN Append(StatelessCandidates(n - 1),
                <<OpeningAngle(n), Separation(n), sh_seq[n].frame>>)
    ELSE StatelessCandidates(n - 1)

\* C23: the call ends as the filter without memory does: its candidates are
\* the frames with index <= release_frame, confidence >= 0.3 on the four
\* keypoints, wrist y < shoulder y and wrist x <= shoulder x, and its result
\* is the top-3-separation / max-angle selection among them.
C23_LatchHasNoEffect ==
    (sh_release # None /\ sh_ret # Pending) =>
        /\ candidate_list = StatelessCandidates(Len(sh_seq))
        /\ sh_ret = ShoulderResult(StatelessCandidates(Len(sh_seq)))

\* a frame was returned although the wrist had dropped between two
\* candidates and the first scanned frame was the trigger frame
C23_Witness ==
    /\ sh_release # None /\ sh_ret.status = "returned" /\ sh_ret.value # None
    /\ Len(sh_seq) >= 3
    /\ 1 \in Survivors
    /\ \E j, k \in Survivors : j < k /\ \E d \in (j + 1)..(k - 1) :
          ~WristAbove(sh_seq[d].keypoints)

---------------------------------------------------------------------------
(* State machine of a profile built from rows of the kinematics table and   *)
(* then used to score a whole record of extract_pitching_biomechanics      *)

KinematicFields ==
    {"Trunk_flexion_excursion", "Pelvis_obliquity_at_FC", "Trunk_rotation_at_BR",
     "Shoulder_abduction_at_BR", "Trunk_flexion_at_BR", "Trunk_lateral_flexion_at_HS"}
FrameFields == {"release_frame", "landing_frame", "shoulder_frame", "total_frames"}
\* the keys of the dict extract_pitching_biomechanics returns
RecordFields == KinematicFields \cup FrameFields

\* the value of a column in the middle row of the table
MiddleValue(col_name) ==
    CASE col_name = "release_frame" -> 22
      [] col_name = "landing_frame" -> 13
      [] col_name = "shoulder_frame" -> 17
      [] col_name = "total_frames" -> 30
      [] OTHER -> 12

\* a row of the kinematics table, every column shifted by offset; no landing
\* and shoulder frame when the landing was not detected
TableRow(offset, landed) ==
    [col_name \in {"id"} \cup Range(feature_columns) |->
        IF col_name = "id" THEN Some(1)
        ELSE IF ~landed /\ col_name \in {"landing_frame", "shoulder_frame"} THEN None
        ELSE Some(MiddleValue(col_name) + offset)]

\* the rows the query of the build script can find
TableQueries ==
    {<<TableRow(-2, TRUE), TableRow(0, TRUE), TableRow(2, TRUE)>>,
     <<TableRow(-2, TRUE), TableRow(0, FALSE), TableRow(2, FALSE)>>,
     <<TableRow(0, TRUE), TableRow(0, TRUE)>>}

\* features_list = [p.__dict__ for p in good_pitches_query.all()]
TableQuery ==
    /\ pf_ret = Pending /\ features_data = <<>>
    /\ features_data' \in TableQueries
    /\ UNCHANGED pf_ret
    /\ UNCHANGED <<landVars, kinVars, scoreVars, svcVars, ballVars, angleVars, shVars, ingVars>>

\* a subject record: kinematic features at the middle value except possibly
\* one, frame numbers at the middle value or later, landing and shoulder
\* frame possibly null
SubjectRecords ==
    {[k \in RecordFields |->
         IF k \in KinematicFields
         THEN Some((MiddleValue(Lower(k)) + (IF k = off THEN 2 ELSE 0)) * Decimals4)
         ELSE IF k = "release_frame" THEN Some((22 + late) * Decimals4)
         ELSE IF k = "total_frames" THEN Some((30 + 2 * late) * Decimals4)
         ELSE IF k = "landing_frame"
              THEN (IF landed THEN Some((13 + late) * Decimals4) ELSE None)
         ELSE IF shouldered THEN Some(17 * Decimals4) ELSE None] :
        off \in KinematicFields \cup {"none"}, late \in {0, 2, 4},
        landed \in BOOLEAN, shouldered \in BOOLEAN}

\* calculate_score_from_comparison is called with a subject record, in the
\* unit of the statistics, and the profile that was built
ScoreRecord ==
    /\ pf_ret # Pending
    /\ sc_pc = "idle"
    /\ features' \in SubjectRecords
    /\ profile_data' = StoredProfile(pf_ret.value)
    /\ sc_pc' = "call"
    /\ UNCHANGED <<sc_todo, total_score, feature_count, feature_score, sc_ret>>
    /\ UNCHANGED <<landVars, kinVars, svcVars, ballVars, profVars, angleVars, shVars, ingVars>>

InitRecord ==
    LandIdle /\ KinIdle /\ ScoreIdle /\ ServiceIdle /\ BallIdle /\ ProfileIdle
    /\ AngleIdle /\ ShoulderIdle /\ IngestIdle
NextRecord ==
    \/ TableQuery \/ CreatePitchProfile \/ ScoreRecord
    \/ ScoreEnter \/ ScoreIterate \/ ScoreReturn
SpecRecord == InitRecord /\ [][NextRecord]_vars

---------------------------------------------------------------------------
(* Claims about the fields of the record that take part in the score *)

\* the lower-cased name of a record field
LowerCased(k) ==
    CASE k = "Trunk_flexion_excursion" -> "trunk_flexion_excursion"
      [] k = "Pelvis_obliquity_at_FC" -> "pelvis_obliquity_at_fc"
      [] k = "Trunk_rotation_at_BR" -> "trunk_rotation_at_br"
      [] k = "Shoulder_abduction_at_BR" -> "shoulder_abduction_at_br"
      [] k = "Trunk_flexion_at_BR" -> "trunk_flexion_at_br"
      [] k = "Trunk_lateral_flexion_at_HS" -> "trunk_lateral_flexion_at_hs"
      [] k = "release_frame" -> "release_frame"
      [] k = "landing_frame" -> "landing_frame"
      [] k = "shoulder_frame" -> "shoulder_frame"
      [] k = "total_frames" -> "total_frames"

\* the record fields with a value whose lower-cased name the profile has
\* with a standard deviation other than 0
MatchedFields ==
    {k \in DOMAIN features :
        /\ features[k] # None
        /\ LowerCased(k) \in DOMAIN profile_data
        /\ Val(profile_data[LowerCased(k)].std) # 0}

\* 100 - 25 * |value - mean| / std, not below 0, of a matched field
PointsOf(k) ==
    LET st == profile_data[LowerCased(k)]
        sd == Abs(Val(st.std))
    IN Frac(Max0(100 * sd - 25 * Abs(Val(features[k]) - Val(st.mean))), sd)

RECURSIVE SumPoints(_)
SumPoints(S) ==
    IF S = {} THEN <<0, 1>>
    ELSE LET k == CHOOSE x \in S : TRUE IN FracAdd(PointsOf(k), SumPoints(S \ {k}))

AtProfileMeans(S) ==
    \A k \in S : /\ LowerCased(k) \in DOMAIN profile_data
                 /\ features[k] = profile_data[LowerCased(k)].mean

\* C24: every field of the 10-field record that has a value and whose
\* lower-cased name is in the profile takes part in the score, the four
\* frame-number fields with the same weight as the six kinematic features:
\* the score is the truncated mean of the z-score points of all of them.
C24_AllRecordFieldsScored ==
    (sc_pc = "done" /\ DOMAIN features = RecordFields /\ profile_data # <<>>) =>
        /\ feature_count = Cardinality(MatchedFields)
        /\ total_score = SumPoints(MatchedFields)
        /\ MatchedFields # {} =>
              sc_ret = Returned(total_score[1] \div (total_score[2] * feature_count))

\* all 10 fields were scored; the six kinematic features equal the profile
\* means, the frame numbers do not, and the score is below 100
C24_Witness ==
    /\ sc_pc = "done" /\ DOMAIN features = RecordFields /\ profile_data # <<>>
    /\ feature_count = 10
    /\ AtProfileMeans(KinematicFields)
    /\ sc_ret.value < 100

\* with every scored field at the profile mean the score is 100
C24_ReachedFullScore ==
    /\ sc_pc = "done" /\ DOMAIN features = RecordFields /\ profile_data # <<>>
    /\ feature_count = 10
    /\ AtProfileMeans(RecordFields)
    /\ sc_ret.value = 100

\* a profile without landing_frame and shoulder_frame: 8 fields scored
C24_ReachedPartialProfile ==
    /\ sc_pc = "done" /\ DOMAIN features = RecordFields /\ profile_data # <<>>
    /\ features["landing_frame"] # None
    /\ feature_count = 8

---------------------------------------------------------------------------
(* ingestVideos.py: the main script, run any number of times on one         *)
(* database; a table is the sequence of its committed rows, the id of a    *)
(* pitch_record row being its position                                     *)

MaxRuns == 2      \* runs of the script that are tried

\* os.listdir(DATA_DIRECTORY) filtered by extension, as one run finds it
FolderListings ==
    {<<"a.mp4">>, <<"a.mp4", "b.mp4">>, <<"b.mp4", "a.mp4">>}

\* lines 93-97: the session is opened and the folder is listed
IngestStart ==
    /\ ing_pc \in {"idle", "done"}
    /\ ing_runs < MaxRuns
    /\ ing_runs' = ing_runs + 1
    /\ ing_todo' \in FolderListings
    /\ ing_pc' = "check"
    /\ UNCHANGED <<ing_new_id, pitch_record, kinematics>>
    /\ UNCHANGED <<landVars, kinVars, scoreVars, svcVars, ballVars, profVars, angleVars,
                   shVars>>

\* lines 99-111: next video of the loop; a video with a pitch_record row is
\* skipped (MAX_VIDEOS_TO_PROCESS is None, the limit never applies)
IngestCheck ==
    /\ ing_pc = "check"
    /\ IF ing_todo = <<>>
       THEN ing_pc' = "close" /\ UNCHANGED ing_todo
       ELSE IF \E id \in DOMAIN pitch_record : pitch_record[id] = Head(ing_todo)
       THEN ing_pc' = "check" /\ ing_todo' = Tail(ing_todo)
       ELSE ing_pc' = "analyze" /\ UNCHANGED ing_todo
    /\ UNCHANGED <<ing_runs, ing_new_id, pitch_record, kinematics>>
    /\ UNCHANGED <<landVars, kinVars, scoreVars, svcVars, ballVars, profVars, angleVars,
                   shVars>>

\* lines 114-116, 151-152: analyze_video_and_get_features returns the pose
\* data and a record without nulls, or (None, None)
IngestAnalyze ==
    /\ ing_pc = "analyze"
    /\ \/ ing_pc' = "stepA" /\ UNCHANGED ing_todo
       \/ ing_pc' = "check" /\ ing_todo' = Tail(ing_todo)
    /\ UNCHANGED <<ing_runs, ing_new_id, pitch_record, kinematics>>
    /\ UNCHANGED <<landVars, kinVars, scoreVars, svcVars, ballVars, profVars, angleVars,
                   shVars>>

\* lines 120-129: the pitch_record row is added and committed, or the
\* commit raises
IngestCommitRecording ==
    /\ ing_pc = "stepA"
    /\ \/ /\ pitch_record' = Append(pitch_record, Head(ing_todo))
          /\ ing_pc' = "refresh"
       \/ /\ ing_pc' = "except"
          /\ UNCHANGED pitch_record
    /\ UNCHANGED <<ing_runs, ing_todo, ing_new_id, kinematics>>
    /\ UNCHANGED <<landVars, kinVars, scoreVars, svcVars, ballVars, profVars, angleVars,
                   shVars>>

\* line 130: db.refresh(new_pitch_record) loads the id of the row, or raises
IngestRefresh ==
    /\ ing_pc = "refresh"
    /\ \/ /\ ing_new_id' = Some(Len(pitch_record))
          /\ ing_pc' = "stepB"
       \/ /\ ing_pc' = "except"
          /\ UNCHANGED ing_new_id
    /\ UNCHANGED <<ing_runs, ing_todo, pitch_record, kinematics>>
    /\ UNCHANGED <<landVars, kinVars, scoreVars, svcVars, ballVars, profVars, angleVars,
                   shVars>>

\* lines 133-150: the kinematics row is added and committed, or the commit
\* raises
IngestCommitKinematics ==
    /\ ing_pc = "stepB"
    /\ \/ /\ kinematics' = Append(kinematics, Val(ing_new_id))
          /\ ing_todo' = Tail(ing_todo)
          /\ ing_pc' = "check"
       \/ /\ ing_pc' = "except"
          /\ UNCHANGED <<kinematics, ing_todo>>
    /\ ing_new_id' = None
    /\ UNCHANGED <<ing_runs, pitch_record>>
    /\ UNCHANGED <<landVars, kinVars, scoreVars, svcVars, ballVars, profVars, angleVars,
                   shVars>>

\* lines 154-156: db.rollback() discards what is not committed; the
\* committed rows stay
IngestExcept ==
    /\ ing_pc = "except"
    /\ ing_pc' = "close"
    /\ ing_new_id' = None
    /\ UNCHANGED <<ing_runs, ing_todo, pitch_record, kinematics>>
    /\ UNCHANGED <<landVars, kinVars, scoreVars, svcVars, ballVars, profVars, angleVars,
                   shVars>>

\* lines 157-161: db.close(), the run is over
IngestClose ==
    /\ ing_pc = "close"
    /\ ing_pc' = "done"
    /\ ing_todo' = <<>>
    /\ UNCHANGED <<ing_runs, ing_new_id, pitch_record, kinematics>>
    /\ UNCHANGED <<landVars, kinVars, scoreVars, svcVars, ballVars, profVars, angleVars,
                   shVars>>

InitIngest ==
    LandIdle /\ KinIdle /\ ScoreIdle /\ ServiceIdle /\ BallIdle /\ ProfileIdle
    /\ AngleIdle /\ ShoulderIdle /\ IngestIdle
NextIngest ==
    \/ IngestStart \/ IngestCheck \/ IngestAnalyze \/ IngestCommitRecording
    \/ IngestRefresh \/ IngestCommitKinematics \/ IngestExcept \/ IngestClose
SpecIngest == InitIngest /\ [][NextIngest]_vars

---------------------------------------------------------------------------
(* Claims about the ingest script *)

RunOver == ing_pc = "done"
RowsOf(video) == {id \in DOMAIN pitch_record : pitch_record[id] = video}
HasKinematics(id) == \E j \in DOMAIN kinematics : kinematics[j] = id
\* pitch_record rows without a kinematics row
Orphans == {id \in DOMAIN pitch_record : ~HasKinematics(id)}

\* C25: after any number of runs, each video filename has at most one
\* pitch_record row and every pitch_record row has a matching kinematics row.
C25_EveryRecordingHasKinematics ==
    RunOver =>
        /\ \A id \in DOMAIN pitch_record : Cardinality(RowsOf(pitch_record[id])) = 1
        /\ Orphans = {}

\* the first half alone: at most one pitch_record row per video filename
C25_AtMostOneRowPerVideo ==
    \A id \in DOMAIN pitch_record : Cardinality(RowsOf(pitch_record[id])) = 1

\* a pitch_record row that is without kinematics when a run is over stays
\* without kinematics in every later run
C25_OrphanStaysOrphan ==
    [][\A id \in DOMAIN pitch_record :
          (ing_pc \in {"done", "check", "analyze", "stepA", "close"}
              /\ ing_new_id = None /\ id \in Orphans) => id \in Orphans']_vars

\* a second run is over and the row orphaned by the first run is still alone
C25_ReachedOrphanAfterRerun ==
    RunOver /\ ing_runs = 2 /\ Orphans # {} /\ kinematics # <<>>

---------------------------------------------------------------------------
(* Claims about the two upstream calls of the service *)

BothCompleted == pose_task.state = "done" /\ ball_task.state = "done"
OneFailed == pose_task.state = "failed" \/ ball_task.state = "failed"
ServiceOver == svc_ret # Pending

\* C26: the pose call and the ball call are started together; profile
\* selection, scoring and rendering begin only after both have completed;
\* when the service returns or propagates an error the temporary copy of
\* the upload has been removed; when one of the two calls fails the service
\* returns no result.
C26_BothCallsThenCleanup ==
    /\ (pose_task.state = "none") <=> (ball_task.state = "none")
    /\ (svc_pc = "gather") => (pose_task.state # "none" /\ temp_exists)
    /\ (svc_pc \in {"select", "scoring", "ball"}) => BothCompleted
    /\ (db_queries # <<>> \/ (sc_pc # "idle" /\ svc_req # None)) => BothCompleted
    /\ ServiceOver => (~temp_exists /\ svc_pc = "done")
    /\ (svc_ret.status = "returned") => BothCompleted
    /\ (ServiceOver /\ OneFailed) => svc_ret = Raised

\* the ball call failed while the pose call was still running: the error
\* was propagated and the temporary copy is gone
C26_Witness ==
    /\ ServiceOver /\ svc_ret = Raised /\ ~temp_exists
    /\ ball_task.state = "failed" /\ pose_task.state = "running"

\* the pose call failed after the ball call had completed
C26_ReachedPoseFailed ==
    /\ ServiceOver /\ svc_ret = Raised /\ ~temp_exists
    /\ pose_task.state = "failed" /\ ball_task.state = "done"

\* both calls completed and rendering failed after the scoring
C26_ReachedRenderFailed ==
    /\ ServiceOver /\ svc_ret = Raised /\ ~temp_exists
    /\ BothCompleted /\ sc_pc = "done"

\* both calls completed and the result was returned
C26_ReachedResult ==
    /\ svc_ret.status = "returned" /\ ~temp_exists /\ BothCompleted /\ sc_pc = "done"

====
